---- MODULE Spec2Model ----
(***************************************************************************)
(* A model of youtube-transcript-cli: the video-id extractor, the          *)
(* transcript selection policy of YouTubeService.fetch_transcript, the      *)
(* controller's fetch-then-render sequence and the Markdown renderer.       *)
(*                                                                          *)
(* Python strings are sequences of one-character strings, so that regular   *)
(* expression search, replace, strip, join and sorted() are computed and    *)
(* not assumed.  None is the one-element sequence None.                     *)
(***************************************************************************)
EXTENDS Integers, Sequences, FiniteSets, TLC

VARIABLES
    app,                  \* which program runs: the core, or the script app.py
    pc,                   \* position of the operation in progress
    url,                  \* input: the URL
    language,             \* input: the requested language, or None
    catalog,              \* provider: the tracks it lists, in its order
    video_id,             \* the extracted video id
    listed,               \* how many times the catalog was listed
    available_languages,  \* the codes _get_transcript_list returned
    transcript,           \* the selected track
    lookups,              \* the selection steps that looked a track up
    fetched,              \* the tracks whose fetch was attempted
    result,               \* what YouTubeService.fetch_transcript returned
    title,                \* the title the controller uses
    requests,             \* the HTTP requests of the title lookup
    data,                 \* the TranscriptData
    markdown,             \* the rendered document
    error,                \* the exception that ended the operation
    output,               \* the content of the output file, None while unwritten
    start,                \* _format_timestamp: its argument, in tenths of a second
    formatted,            \* _format_timestamp: what it returned
    raw,                  \* _segment_field: the segment it is given
    field,                \* _segment_field: the name of the field
    resolved,             \* _segment_field: what it returned
    gui,                  \* the window of the GUI: its fields, widgets, threads and queue
    cli,                  \* the command line: its flag, what it printed, its exit code
    fetch_error,          \* provider: the exception a track's fetch raises when it fails
    flaky                 \* provider: a lookup of a listed code may raise NoTranscriptFound

\* The arguments and results of the functions called on their own.
unit == <<start, formatted, raw, field, resolved>>

\* What the fetch operation is given and what it has no access to.
inputs == <<app, url, language, catalog, unit, gui, cli, fetch_error, flaky>>

vars == <<inputs, pc, video_id, listed, available_languages, transcript, lookups,
          fetched, result, title, requests, data, markdown, error, output>>

----------------------------------------------------------------------------
(* Strings *)

\* Python's None; distinct from every string because "None" is no character.
None == <<"None">>

\* The characters of the model in code-point order (tab, newline, then the
\* printable ASCII
\* range without the double quote, the backslash and the backquote), which is the order Python compares strings by.
Ascii ==
    <<"\t", "\n", " ", "!", "#", "$", "%", "&", "'", "(", ")", "*", "+", ",", "-", ".", "/",
       "0", "1", "2", "3", "4", "5", "6", "7", "8", "9", ":", ";", "<", "=", ">", "?", "@",
       "A", "B", "C", "D", "E", "F", "G", "H", "I", "J", "K", "L", "M", "N", "O", "P", "Q", "R", "S", "T", "U", "V", "W", "X", "Y", "Z", "[", "]", "^", "_",
       "a", "b", "c", "d", "e", "f", "g", "h", "i", "j", "k", "l", "m", "n", "o", "p", "q", "r", "s", "t", "u", "v", "w", "x", "y", "z", "{", "|", "}", "~">>

Ord(c) == CHOOSE i \in 1..Len(Ascii) : Ascii[i] = c

Min(S) == CHOOSE x \in S : \A y \in S : x <= y

\* s < t in Python's string order.
StrLess(s, t) ==
    LET n == IF Len(s) < Len(t) THEN Len(s) ELSE Len(t)
        diff == {i \in 1..n : s[i] # t[i]}
    IN  IF diff = {} THEN Len(s) < Len(t)
        ELSE Ord(s[Min(diff)]) < Ord(t[Min(diff)])

\* Does the literal lit occur in s at position i?
LitAt(s, i, lit) ==
    /\ i + Len(lit) - 1 <= Len(s)
    /\ SubSeq(s, i, i + Len(lit) - 1) = lit

----------------------------------------------------------------------------
(* Video-id extractor *)

IdLen == 11

\* The character class [0-9A-Za-z_-].
IdChars ==
    {"0", "1", "2", "3", "4", "5", "6", "7", "8", "9",
     "A", "B", "C", "D", "E", "F", "G", "H", "I", "J", "K", "L", "M", "N", "O", "P", "Q", "R", "S", "T", "U", "V", "W", "X", "Y", "Z",
     "a", "b", "c", "d", "e", "f", "g", "h", "i", "j", "k", "l", "m", "n", "o", "p", "q", "r", "s", "t", "u", "v", "w", "x", "y", "z", "_", "-"}

\* ([0-9A-Za-z_-]{11}) matches at position j.
IdRunAt(s, j) ==
    /\ j >= 1
    /\ j + IdLen - 1 <= Len(s)
    /\ \A k \in j..(j + IdLen - 1) : s[k] \in IdChars

\* A slip: the first pattern lacks the "v=" alternative.
GroupStartAt_NoQuery(p, s, i) ==
    CASE p = 1 ->
            IF LitAt(s, i, <<"/">>) /\ IdRunAt(s, i + 1) THEN i + 1 ELSE 0
      [] p = 2 ->
            IF LitAt(s, i, <<"y", "o", "u", "t", "u", ".", "b", "e", "/">>) /\ IdRunAt(s, i + 9)
            THEN i + 9 ELSE 0
      [] p = 3 ->
            IF LitAt(s, i, <<"y", "o", "u", "t", "u", "b", "e", ".", "c", "o", "m", "/", "e", "m", "b", "e", "d", "/">>)
               /\ IdRunAt(s, i + 18)
            THEN i + 18 ELSE 0

\* A slip: the first pattern lacks the "/" alternative.
GroupStartAt_QueryOnly(p, s, i) ==
    CASE p = 1 ->
            IF LitAt(s, i, <<"v", "=">>) /\ IdRunAt(s, i + 2) THEN i + 2 ELSE 0
      [] p = 2 ->
            IF LitAt(s, i, <<"y", "o", "u", "t", "u", ".", "b", "e", "/">>) /\ IdRunAt(s, i + 9)
            THEN i + 9 ELSE 0
      [] p = 3 ->
            IF LitAt(s, i, <<"y", "o", "u", "t", "u", "b", "e", ".", "c", "o", "m", "/", "e", "m", "b", "e", "d", "/">>)
               /\ IdRunAt(s, i + 18)
            THEN i + 18 ELSE 0

\* Where group 1 starts when pattern p matches at position i; 0 for no match.
\* Pattern 1 is (?:v=|/)([0-9A-Za-z_-]{11})(?:[\?&].*)?  whose optional tail
\* never makes a match fail; patterns 2 and 3 are literals before the group.
GroupStartAt(p, s, i) ==
    CASE p = 1 ->
            IF LitAt(s, i, <<"v", "=">>) /\ IdRunAt(s, i + 2) THEN i + 2
            ELSE IF LitAt(s, i, <<"/">>) /\ IdRunAt(s, i + 1) THEN i + 1
            ELSE 0
      [] p = 2 ->
            IF LitAt(s, i, <<"y", "o", "u", "t", "u", ".", "b", "e", "/">>) /\ IdRunAt(s, i + 9)
            THEN i + 9 ELSE 0
      [] p = 3 ->
            IF LitAt(s, i, <<"y", "o", "u", "t", "u", "b", "e", ".", "c", "o", "m", "/", "e", "m", "b", "e", "d", "/">>)
               /\ IdRunAt(s, i + 18)
            THEN i + 18 ELSE 0

YOUTUBE_ID_PATTERNS == <<1, 2, 3>>

\* pattern.search(url): group 1 of the leftmost match, or None.
PatternSearch(p, s) ==
    LET hits == {i \in 1..Len(s) : GroupStartAt(p, s, i) # 0}
    IN  IF hits = {} THEN None
        ELSE LET g == GroupStartAt(p, s, Min(hits))
             IN  SubSeq(s, g, g + IdLen - 1)

\* The first pattern, in list order, that matches with an 11-character group.
MatchingPatterns(s) ==
    {p \in 1..Len(YOUTUBE_ID_PATTERNS) :
        /\ PatternSearch(YOUTUBE_ID_PATTERNS[p], s) # None
        /\ Len(PatternSearch(YOUTUBE_ID_PATTERNS[p], s)) = 11}

extract_video_id(s) ==
    IF s = <<>> \/ s = None THEN None
    ELSE IF MatchingPatterns(s) = {} THEN None
    ELSE PatternSearch(YOUTUBE_ID_PATTERNS[Min(MatchingPatterns(s))], s)

----------------------------------------------------------------------------
(* Python list and string helpers *)

Range(q) == {q[i] : i \in 1..Len(q)}

\* sep.join(parts)
RECURSIVE Join(_, _)
Join(parts, sep) ==
    IF parts = <<>> THEN <<>>
    ELSE IF Len(parts) = 1 THEN parts[1]
    ELSE parts[1] \o sep \o Join(Tail(parts), sep)

\* sorted(S) of a set of strings: least element first; the element at
\* position i has i - 1 elements before it.
SortedSet(S) ==
    [i \in 1..Cardinality(S) |->
        CHOOSE x \in S : Cardinality({y \in S : StrLess(y, x)}) = i - 1]

\* Insert x after the last element not greater than it (sorted() is stable).
RECURSIVE InsertSorted(_, _)
InsertSorted(q, x) ==
    IF q = <<>> THEN <<x>>
    ELSE IF StrLess(x, q[1]) THEN <<x>> \o q
    ELSE <<q[1]>> \o InsertSorted(Tail(q), x)

\* sorted(q) of a list of strings; duplicates are kept.
RECURSIVE SortedList(_)
SortedList(q) ==
    IF q = <<>> THEN <<>>
    ELSE InsertSorted(SortedList(SubSeq(q, 1, Len(q) - 1)), q[Len(q)])

\* s.replace("\n", " ")
ReplaceNewlines(s) == [i \in 1..Len(s) |-> IF s[i] = "\n" THEN " " ELSE s[i]]

\* The characters str.strip() removes.
Whitespace == {" ", "\t", "\n"}

\* s.strip(): lead whitespace characters are dropped from the front and
\* trail from the back.
Strip(s) ==
    LET lead  == CHOOSE n \in 0..Len(s) :
                    /\ \A j \in 1..n : s[j] \in Whitespace
                    /\ n = Len(s) \/ s[n + 1] \notin Whitespace
        trail == CHOOSE n \in 0..Len(s) :
                    /\ \A j \in (Len(s) - n + 1)..Len(s) : s[j] \in Whitespace
                    /\ n = Len(s) \/ s[Len(s) - n] \notin Whitespace
    IN  IF lead = Len(s) THEN <<>> ELSE SubSeq(s, lead + 1, Len(s) - trail)

DigitChars == <<"0", "1", "2", "3", "4", "5", "6", "7", "8", "9">>

\* str(n) for n >= 0
RECURSIVE DecStr(_)
DecStr(n) ==
    IF n < 10 THEN <<DigitChars[n + 1]>>
    ELSE DecStr(n \div 10) \o <<DigitChars[(n % 10) + 1]>>

\* f"{n:02d}" for n >= 0: at least two digits, zero-padded.
Pad02(n) == IF n < 10 THEN <<"0">> \o DecStr(n) ELSE DecStr(n)

----------------------------------------------------------------------------
(* Markdown renderer.  A float number of seconds is an integer number of    *)
(* tenths of a second.                                                       *)

DefaultTitle == <<"V", "i", "d", "e", "o", " ", "T", "r", "a", "n", "s", "c", "r", "i", "p", "t">>

NoSegmentsLine == <<"_", "T", "r", "a", "n", "s", "c", "r", "i", "p", "t", " ", "r", "e", "t", "u", "r", "n", "e", "d", " ", "n", "o", " ", "r", "e", "a", "d", "a", "b", "l", "e", " ", "s", "e", "g", "m", "e", "n", "t", "s", ".", "_">>

\* A slip: the seconds are rounded to the nearest integer.
IntOfTenths_Rounded(t) == (t + 5) \div 10

\* int(seconds): truncation toward zero.
IntOfTenths(t) == IF t >= 0 THEN t \div 10 ELSE -((-t) \div 10)

\* A slip: the hours are always shown.
_format_timestamp_AlwaysHours(seconds) ==
    LET total_seconds == IF IntOfTenths(seconds) > 0 THEN IntOfTenths(seconds) ELSE 0
        secs == total_seconds % 60
        minutes == (total_seconds \div 60) % 60
        hours == (total_seconds \div 60) \div 60
    IN  Pad02(hours) \o <<":">> \o Pad02(minutes) \o <<":">> \o Pad02(secs)

_format_timestamp(seconds) ==
    LET total_seconds == IF IntOfTenths(seconds) > 0 THEN IntOfTenths(seconds) ELSE 0
        secs == total_seconds % 60
        minutes == (total_seconds \div 60) % 60
        hours == (total_seconds \div 60) \div 60
    IN  IF hours # 0
        THEN Pad02(hours) \o <<":">> \o Pad02(minutes) \o <<":">> \o Pad02(secs)
        ELSE Pad02(minutes) \o <<":">> \o Pad02(secs)

\* A slip: a segment whose text is blank gets a bullet too.
SegmentLines_NoSkip(segment) ==
    LET timestamp == _format_timestamp(segment.start)
        text == Strip(ReplaceNewlines(segment.text))
    IN  << <<"-", " ", "[">> \o timestamp \o <<"]", " ">> \o text >>

\* The bullet of one segment, or no line when its stripped text is empty.
SegmentLines(segment) ==
    LET timestamp == _format_timestamp(segment.start)
        text == Strip(ReplaceNewlines(segment.text))
    IN  IF text = <<>> THEN <<>>
        ELSE << <<"-", " ", "[">> \o timestamp \o <<"]", " ">> \o text >>

RECURSIVE BulletLines(_)
BulletLines(segments) ==
    IF segments = <<>> THEN <<>>
    ELSE SegmentLines(segments[1]) \o BulletLines(Tail(segments))

_segments_to_markdown(segments) ==
    IF BulletLines(segments) = <<>> THEN <<NoSegmentsLine>>
    ELSE BulletLines(segments)

\* A slip: the languages are joined as they come, not sorted.
HeaderLines_Unsorted(doc) ==
    << <<"#", " ">> \o (IF doc.title = <<>> \/ doc.title = None
                        THEN DefaultTitle ELSE doc.title),
       <<>>,
       <<"-", " ", "V", "i", "d", "e", "o", " ", "U", "R", "L", ":", " ">> \o doc.url,
       <<"-", " ", "L", "a", "n", "g", "u", "a", "g", "e", ":", " ">> \o doc.language >>
    \o (IF doc.available_languages # <<>>
        THEN << <<"-", " ", "A", "v", "a", "i", "l", "a", "b", "l", "e", " ", "l", "a", "n", "g", "u", "a", "g", "e", "s", ":", " ">>
                \o Join(doc.available_languages, <<",", " ">>) >>
        ELSE <<>>)
    \o << <<>> >>

\* The header lines of render.
HeaderLines(doc) ==
    << <<"#", " ">> \o (IF doc.title = <<>> \/ doc.title = None
                        THEN DefaultTitle ELSE doc.title),
       <<>>,
       <<"-", " ", "V", "i", "d", "e", "o", " ", "U", "R", "L", ":", " ">> \o doc.url,
       <<"-", " ", "L", "a", "n", "g", "u", "a", "g", "e", ":", " ">> \o doc.language >>
    \o (IF doc.available_languages # <<>>
        THEN << <<"-", " ", "A", "v", "a", "i", "l", "a", "b", "l", "e", " ", "l", "a", "n", "g", "u", "a", "g", "e", "s", ":", " ">>
                \o Join(SortedList(doc.available_languages), <<",", " ">>) >>
        ELSE <<>>)
    \o << <<>> >>

render(doc) ==
    Join(HeaderLines(doc) \o _segments_to_markdown(doc.segments), <<"\n">>)

----------------------------------------------------------------------------
(* Transcript provider: the catalog of tracks and its lookup *)

MaxTracks == 3

LanguageCodes == {<<"e", "n">>, <<"e", "n", "-", "G", "B">>, <<"e", "s">>}

Tracks == [language_code : LanguageCodes, is_generated : BOOLEAN]

\* The catalogs: every list of up to MaxTracks different tracks, in any order.
Catalogs ==
    {c \in UNION {[1..n -> Tracks] : n \in 0..MaxTracks} :
        \A i, j \in 1..Len(c) : i # j => c[i] # c[j]}

\* transcript_list.find_transcript(codes): the first listed track whose code
\* is among codes, as <<track>>; <<>> stands for NoTranscriptFound.
find_transcript(transcript_list, codes) ==
    LET hits == {i \in 1..Len(transcript_list) :
                    transcript_list[i].language_code \in Range(codes)}
    IN  IF hits = {} THEN <<>> ELSE <<transcript_list[Min(hits)]>>

\* What a lookup can answer: the track find_transcript finds, and with a
\* flaky provider NoTranscriptFound as well, whatever is listed.
Found(transcript_list, codes) ==
    {find_transcript(transcript_list, codes)} \cup (IF flaky THEN {<<>>} ELSE {})

\* A slip: only the manual tracks are counted.
AvailableLanguages_ManualOnly(transcript_list) ==
    SortedSet({transcript_list[i].language_code :
                  i \in {j \in 1..Len(transcript_list) : ~transcript_list[j].is_generated}})

\* sorted({t.language_code for t in transcript_list})
AvailableLanguages(transcript_list) ==
    SortedSet({transcript_list[i].language_code : i \in 1..Len(transcript_list)})

\* [t.language_code for t in transcript_list if not t.is_generated]
ManualLangs(transcript_list) ==
    LET F[i \in 0..Len(transcript_list)] ==
            IF i = 0 THEN <<>>
            ELSE IF ~transcript_list[i].is_generated
                 THEN F[i - 1] \o <<transcript_list[i].language_code>>
                 ELSE F[i - 1]
    IN  F[Len(transcript_list)]

\* sorted(set(available_languages))
UniqueLanguages(langs) == SortedSet(Range(langs))

----------------------------------------------------------------------------
(* Errors: every failure of the core is a ValueError told apart by message *)

NoError == [type |-> "none", message |-> <<>>]

ValueError(msg) == [type |-> "ValueError", message |-> msg]

\* What transcript.fetch() raises: exceptions of the provider and of the
\* network, each with its own text.
ConnectionError ==
    [type |-> "Exception", message |-> <<"t", "i", "m", "e", "d", " ", "o", "u", "t">>]

IpBlocked ==
    [type |-> "Exception", message |-> <<"I", "P", " ", "b", "l", "o", "c", "k", "e", "d">>]

FetchErrors == {ConnectionError, IpBlocked}

\* No command line runs: the controller is called directly.
NoCli == <<>>

MsgInvalidUrl ==
    <<"C", "o", "u", "l", "d", " ", "n", "o", "t", " ", "e", "x", "t", "r", "a", "c", "t", " ", "v", "i", "d", "e", "o", " ", "I", "D", " ", "f", "r", "o", "m", " ", "t", "h", "e", " ", "p", "r", "o", "v", "i", "d", "e", "d", " ", "U", "R", "L", ".">>

MsgTranscriptsUnavailable ==
    <<"N", "o", " ", "t", "r", "a", "n", "s", "c", "r", "i", "p", "t", "s", " ", "c", "o", "u", "l", "d", " ", "b", "e", " ", "f", "o", "u", "n", "d", " ", "f", "o", "r", " ", "t", "h", "i", "s", " ", "v", "i", "d", "e", "o", ".", " ", "T", "h", "e", "y", " ", "m", "a", "y", " ", "b", "e", " ", "d", "i", "s", "a", "b", "l", "e", "d", ".">>

MsgNoTranscriptsAvailable ==
    <<"N", "o", " ", "t", "r", "a", "n", "s", "c", "r", "i", "p", "t", "s", " ", "a", "v", "a", "i", "l", "a", "b", "l", "e", " ", "f", "o", "r", " ", "t", "h", "i", "s", " ", "v", "i", "d", "e", "o", ".">>

MsgFetchFailed ==
    <<"A", "n", " ", "u", "n", "e", "x", "p", "e", "c", "t", "e", "d", " ", "e", "r", "r", "o", "r", " ", "o", "c", "c", "u", "r", "r", "e", "d", " ", "w", "h", "i", "l", "e", " ", "f", "e", "t", "c", "h", "i", "n", "g", " ", "t", "h", "e", " ", "t", "r", "a", "n", "s", "c", "r", "i", "p", "t", ".">>

MsgLanguagePrefix == <<"L", "a", "n", "g", "u", "a", "g", "e", " ", "'">>

MsgLanguageMiddle == <<"'", " ", "n", "o", "t", " ", "f", "o", "u", "n", "d", ".", " ", "A", "v", "a", "i", "l", "a", "b", "l", "e", " ", "l", "a", "n", "g", "u", "a", "g", "e", "s", ":", " ">>

\* f"Language '{language}' not found. Available languages: {', '.join(...)}"
MsgLanguageNotAvailable(lang, langs) ==
    MsgLanguagePrefix \o lang \o MsgLanguageMiddle \o Join(langs, <<",", " ">>)

----------------------------------------------------------------------------
(* Segment normalization.  A raw value is a number (tenths of a second), a  *)
(* string or None; a raw segment is a dict or an object with attributes and *)
(* possibly a to_dict method.                                               *)

NoneValue == [t |-> "none"]

Num(n) == [t |-> "num", v |-> n]

Str(s) == [t |-> "str", v |-> s]

NoToDict == [how |-> "absent"]

DictSegment(mapping) == [kind |-> "dict", attrs |-> mapping, to_dict |-> NoToDict]

ObjectSegment(attributes, conv) == [kind |-> "object", attrs |-> attributes, to_dict |-> conv]

Aliases(name) ==
    CASE name = "start" -> <<"offset", "time">>
      [] name = "duration" -> <<"length">>
      [] name = "text" -> <<"snippet">>
      [] OTHER -> <<>>

\* hasattr(segment, name) and getattr(segment, name) is not None
HasValue(segment, name) ==
    /\ name \in DOMAIN segment.attrs
    /\ segment.attrs[name].t # "none"

_segment_field(segment, name, default) ==
    IF segment.kind = "dict"
    THEN IF name \in DOMAIN segment.attrs THEN segment.attrs[name] ELSE default
    ELSE IF HasValue(segment, name) THEN segment.attrs[name]
    ELSE IF segment.to_dict.how = "dict"
    THEN IF name \in DOMAIN segment.to_dict.data
         THEN segment.to_dict.data[name] ELSE default
    ELSE LET found == {i \in 1..Len(Aliases(name)) : HasValue(segment, Aliases(name)[i])}
         IN  IF found = {} THEN default
             ELSE segment.attrs[Aliases(name)[Min(found)]]

\* float(x) and str(x) succeed on these values; float of a string or of None raises.
Converts(segment) ==
    /\ _segment_field(segment, "start", Num(0)).t = "num"
    /\ _segment_field(segment, "duration", Num(0)).t = "num"
    /\ _segment_field(segment, "text", Str(<<>>)).t \in {"str", "none"}

\* str(x)
StrOf(value) == IF value.t = "none" THEN <<"N", "o", "n", "e">> ELSE value.v

\* TranscriptSegment(start=float(...), duration=float(...), text=str(...))
TranscriptSegment(segment) ==
    [start    |-> _segment_field(segment, "start", Num(0)).v,
     duration |-> _segment_field(segment, "duration", Num(0)).v,
     text     |-> StrOf(_segment_field(segment, "text", Str(<<>>)))]

NormalizeAll(raw_segments) ==
    [i \in 1..Len(raw_segments) |-> TranscriptSegment(raw_segments[i])]

----------------------------------------------------------------------------
(* Title lookup: the outcomes of the two HTTP requests *)

OembedOutcomes ==
    {[how |-> "exception"], [how |-> "status"], [how |-> "bad_json"],
     [how |-> "no_title"],
     [how |-> "title", title |-> <<>>],
     [how |-> "title", title |-> <<"T", "1">>]}

ScrapeOutcomes ==
    {[how |-> "exception"], [how |-> "status"], [how |-> "no_tag"],
     [how |-> "title", text |-> <<" ", "T", "2", " ", "-", " ", "Y", "o", "u", "T", "u", "b", "e">>],
     [how |-> "title", text |-> <<"T", "3", "\n">>],
     [how |-> "title", text |-> <<" ">>]}

YouTubeSuffix == <<" ", "-", " ", "Y", "o", "u", "T", "u", "b", "e">>

\* title_tag.text.strip(), with a trailing " - YouTube" cut off
ScrapedTitle(text) ==
    LET stripped == Strip(text)
    IN  IF Len(stripped) >= Len(YouTubeSuffix)
           /\ SubSeq(stripped, Len(stripped) - Len(YouTubeSuffix) + 1, Len(stripped)) = YouTubeSuffix
        THEN SubSeq(stripped, 1, Len(stripped) - 10)
        ELSE stripped

\* The watch page is requested only when the oEmbed request did not return.
ScrapeOutcomesAfter(oembed) ==
    IF oembed.how \in {"title", "no_title"} THEN {[how |-> "unused"]} ELSE ScrapeOutcomes

\* get_video_title: the title (or None) and the requests made, in order.
get_video_title(id, oembed, scrape) ==
    IF id = <<>> \/ id = None THEN [title |-> None, requests |-> <<>>]
    ELSE IF oembed.how = "title"
    THEN [title |-> oembed.title, requests |-> <<"oembed">>]
    ELSE IF oembed.how = "no_title"
    THEN [title |-> None, requests |-> <<"oembed">>]
    ELSE IF scrape.how = "title"
    THEN [title |-> ScrapedTitle(scrape.text), requests |-> <<"oembed", "watch">>]
    ELSE [title |-> None, requests |-> <<"oembed", "watch">>]

----------------------------------------------------------------------------
(* Inputs of the fetch operation *)

WatchUrl == <<"h", "t", "t", "p", "s", ":", "/", "/", "w", "w", "w", ".", "y", "o", "u", "t", "u", "b", "e", ".", "c", "o", "m", "/", "w", "a", "t", "c", "h", "?", "v", "=", "d", "Q", "w", "4", "w", "9", "W", "g", "X", "c", "Q">>

OtherSiteUrl == <<"h", "t", "t", "p", "s", ":", "/", "/", "e", "x", "a", "m", "p", "l", "e", ".", "c", "o", "m", "/", "v", "i", "d", "e", "o">>

FetchUrls == {WatchUrl, OtherSiteUrl, <<>>}

\* language: None, the empty string, codes of the catalog, a code no catalog has
Requests == {None, <<>>, <<"e", "n">>, <<"f", "r">>}

RawSegmentLists ==
    { <<>>,
      << DictSegment([start |-> Num(0), duration |-> Num(10), text |-> Str(<<"h", "i">>)]) >>,
      << ObjectSegment([offset |-> Num(42), text |-> Str(<<" ", "\n">>)], NoToDict),
         DictSegment([start |-> Num(36000), text |-> Str(<<"a", "\n", "b">>)]) >>,
      << ObjectSegment([start |-> Num(15), duration |-> Num(20), text |-> Str(<<"a">>)], NoToDict),
         ObjectSegment([start |-> Num(-5), duration |-> NoneValue, text |-> Str(<<>>)], NoToDict),
         ObjectSegment([start |-> Num(600), text |-> Str(<<"b">>)], NoToDict) >>,
      << DictSegment([start |-> Str(<<"x">>)]) >> }


----------------------------------------------------------------------------
(* TranscriptController.fetch_transcript, step by step.  An optional value  *)
(* (the selected track, the tuple fetch_transcript returns, TranscriptData) *)
(* is the empty sequence or a one-element sequence.                         *)

Fail(err) ==
    /\ pc' = "failed"
    /\ error' = err

\* validate_and_extract_video_id
Validate ==
    /\ app = "core"
    /\ IF cli = NoCli THEN TRUE ELSE ~cli.list_languages
    /\ pc = "start"
    /\ video_id' = extract_video_id(url)
    /\ IF extract_video_id(url) = None \/ extract_video_id(url) = <<>>
       THEN Fail(ValueError(MsgInvalidUrl))
       ELSE pc' = "list" /\ UNCHANGED error
    /\ UNCHANGED <<inputs, output, listed, available_languages, transcript,
                   lookups, fetched, result, title, requests, data, markdown>>

\* A slip: the failure is recorded and the operation goes on with no track.
ListTranscripts_Swallowed ==
    /\ pc = "list"
    /\ listed' = listed + 1
    /\ \E outcome \in {"ok", "TranscriptsDisabled", "NoTranscriptFound"} :
          IF outcome = "ok"
          THEN /\ available_languages' = AvailableLanguages(catalog)
               /\ pc' = "explicit"
               /\ UNCHANGED error
          ELSE /\ error' = ValueError(MsgTranscriptsUnavailable)
               /\ pc' = "explicit"
               /\ UNCHANGED available_languages
    /\ UNCHANGED <<inputs, output, video_id, transcript, lookups, fetched,
                   result, title, requests, data, markdown>>

\* _get_transcript_list: list_transcripts raises TranscriptsDisabled or
\* NoTranscriptFound, or returns the catalog.
ListTranscripts ==
    /\ pc = "list"
    /\ listed' = listed + 1
    /\ \E outcome \in {"ok", "TranscriptsDisabled", "NoTranscriptFound"} :
          IF outcome = "ok"
          THEN /\ available_languages' = AvailableLanguages(catalog)
               /\ pc' = "explicit"
               /\ UNCHANGED error
          ELSE /\ Fail(ValueError(MsgTranscriptsUnavailable))
               /\ UNCHANGED available_languages
    /\ UNCHANGED <<inputs, output, video_id, transcript, lookups, fetched,
                   result, title, requests, data, markdown>>

\* A slip: the track that was found is not kept.
ExplicitRequest_Discarded ==
    /\ pc = "explicit"
    /\ IF language # None /\ language # <<>>
       THEN /\ lookups' = Append(lookups, "explicit")
            /\ IF find_transcript(catalog, <<language>>) = <<>>
               THEN /\ Fail(ValueError(MsgLanguageNotAvailable(language, available_languages)))
                    /\ UNCHANGED transcript
               ELSE /\ transcript' = <<>>
                    /\ pc' = "manual"
                    /\ UNCHANGED error
       ELSE /\ pc' = "manual"
            /\ UNCHANGED <<lookups, transcript, error>>
    /\ UNCHANGED <<inputs, output, video_id, listed, available_languages,
                   fetched, result, title, requests, data, markdown>>

\* if language: find_transcript([language]), LanguageNotAvailable when absent
ExplicitRequest ==
    /\ pc = "explicit"
    /\ IF language # None /\ language # <<>>
       THEN /\ lookups' = Append(lookups, "explicit")
            /\ IF find_transcript(catalog, <<language>>) = <<>>
               THEN /\ Fail(ValueError(MsgLanguageNotAvailable(language, available_languages)))
                    /\ UNCHANGED transcript
               ELSE /\ transcript' = find_transcript(catalog, <<language>>)
                    /\ pc' = "manual"
                    /\ UNCHANGED error
       ELSE /\ pc' = "manual"
            /\ UNCHANGED <<lookups, transcript, error>>
    /\ UNCHANGED <<inputs, output, video_id, listed, available_languages,
                   fetched, result, title, requests, data, markdown>>

\* A slip: a manual lookup that fails ends the operation.
ManualPreference_Terminal ==
    /\ pc = "manual"
    /\ IF transcript = <<>> /\ ManualLangs(catalog) # <<>>
       THEN /\ lookups' = Append(lookups, "manual")
            /\ \E found \in Found(catalog, ManualLangs(catalog)) :
                  /\ transcript' = found
                  /\ IF found = <<>>
                     THEN Fail(ValueError(MsgNoTranscriptsAvailable))
                     ELSE pc' = "catchall" /\ UNCHANGED error
       ELSE pc' = "catchall" /\ UNCHANGED <<lookups, transcript, error>>
    /\ UNCHANGED <<inputs, output, video_id, listed, available_languages,
                   fetched, result, title, requests, data, markdown>>

\* if transcript is None: look a manual track up, NoTranscriptFound ignored
ManualPreference ==
    /\ pc = "manual"
    /\ pc' = "catchall"
    /\ IF transcript = <<>> /\ ManualLangs(catalog) # <<>>
       THEN /\ lookups' = Append(lookups, "manual")
            /\ transcript' \in Found(catalog, ManualLangs(catalog))
       ELSE UNCHANGED <<lookups, transcript>>
    /\ UNCHANGED <<inputs, output, video_id, listed, available_languages,
                   fetched, result, title, requests, data, markdown, error>>

\* A slip: the last step looks among the manual tracks again.
CatchAll_ManualOnly ==
    /\ pc = "catchall"
    /\ IF transcript = <<>>
       THEN /\ lookups' = Append(lookups, "catchall")
            /\ IF find_transcript(catalog, ManualLangs(catalog)) = <<>>
               THEN /\ Fail(ValueError(MsgNoTranscriptsAvailable))
                    /\ UNCHANGED transcript
               ELSE /\ transcript' = find_transcript(catalog, ManualLangs(catalog))
                    /\ pc' = "fetch"
                    /\ UNCHANGED error
       ELSE /\ pc' = "fetch"
            /\ UNCHANGED <<lookups, transcript, error>>
    /\ UNCHANGED <<inputs, output, video_id, listed, available_languages,
                   fetched, result, title, requests, data, markdown>>

\* if transcript is None: any track, NoTranscriptsAvailable when there is none
CatchAll ==
    /\ pc = "catchall"
    /\ IF transcript = <<>>
       THEN /\ lookups' = Append(lookups, "catchall")
            /\ \E found \in Found(catalog, available_languages) :
                  IF found = <<>>
                  THEN /\ Fail(ValueError(MsgNoTranscriptsAvailable))
                       /\ UNCHANGED transcript
                  ELSE /\ transcript' = found
                       /\ pc' = "fetch"
                       /\ UNCHANGED error
       ELSE /\ pc' = "fetch"
            /\ UNCHANGED <<lookups, transcript, error>>
    /\ UNCHANGED <<inputs, output, video_id, listed, available_languages,
                   fetched, result, title, requests, data, markdown>>

\* A slip: a fetch that raises is tried once more.
FetchTrack_Retry ==
    /\ pc = "fetch"
    /\ fetched' = Append(fetched, transcript[1])
    /\ \/ /\ IF Len(fetched) = 0
             THEN pc' = "fetch" /\ UNCHANGED error
             ELSE Fail(ValueError(MsgFetchFailed))
          /\ UNCHANGED result
       \/ \E raw_segments \in RawSegmentLists :
             IF \A i \in 1..Len(raw_segments) : Converts(raw_segments[i])
             THEN /\ result' = << [segments      |-> NormalizeAll(raw_segments),
                                   languages     |-> UniqueLanguages(available_languages),
                                   language_code |-> transcript[1].language_code,
                                   is_generated  |-> transcript[1].is_generated] >>
                  /\ pc' = "title"
                  /\ UNCHANGED error
             ELSE /\ Fail([type |-> "ConversionError", message |-> <<>>])
                  /\ UNCHANGED result
    /\ UNCHANGED <<inputs, output, video_id, listed, available_languages,
                   transcript, lookups, title, requests, data, markdown>>

\* transcript.fetch() and the normalization of what it returns
FetchTrack ==
    /\ pc = "fetch"
    /\ fetched' = Append(fetched, transcript[1])
    /\ \/ /\ Fail(ValueError(MsgFetchFailed))
          /\ UNCHANGED result
       \/ \E raw_segments \in RawSegmentLists :
             IF \A i \in 1..Len(raw_segments) : Converts(raw_segments[i])
             THEN /\ result' = << [segments      |-> NormalizeAll(raw_segments),
                                   languages     |-> UniqueLanguages(available_languages),
                                   language_code |-> transcript[1].language_code,
                                   is_generated  |-> transcript[1].is_generated] >>
                  /\ pc' = "title"
                  /\ UNCHANGED error
             ELSE /\ Fail([type |-> "ConversionError", message |-> <<>>])
                  /\ UNCHANGED result
    /\ UNCHANGED <<inputs, output, video_id, listed, available_languages,
                   transcript, lookups, title, requests, data, markdown>>

\* A slip: the title is used as it was looked up, absent or empty included.
ResolveTitle_NoFallback ==
    /\ pc = "title"
    /\ pc' = "build"
    /\ \E oembed \in OembedOutcomes : \E scrape \in ScrapeOutcomesAfter(oembed) :
          LET got == get_video_title(video_id, oembed, scrape)
          IN  /\ title' = got.title
              /\ requests' = requests \o got.requests
    /\ UNCHANGED <<inputs, output, video_id, listed, available_languages,
                   transcript, lookups, fetched, result, data, markdown, error>>

\* title = get_video_title(video_id) or "Video Transcript"
ResolveTitle ==
    /\ pc = "title"
    /\ pc' = "build"
    /\ \E oembed \in OembedOutcomes : \E scrape \in ScrapeOutcomesAfter(oembed) :
          LET got == get_video_title(video_id, oembed, scrape)
          IN  /\ title' = IF got.title = None \/ got.title = <<>>
                          THEN DefaultTitle ELSE got.title
              /\ requests' = requests \o got.requests
    /\ UNCHANGED <<inputs, output, video_id, listed, available_languages,
                   transcript, lookups, fetched, result, data, markdown, error>>

\* TranscriptData(...)
BuildData ==
    /\ pc = "build"
    /\ pc' = "render"
    /\ data' = << [video_id            |-> video_id,
                   url                 |-> url,
                   title               |-> title,
                   language            |-> result[1].language_code,
                   segments            |-> result[1].segments,
                   available_languages |-> result[1].languages,
                   is_generated        |-> result[1].is_generated] >>
    /\ UNCHANGED <<inputs, output, video_id, listed, available_languages,
                   transcript, lookups, fetched, result, title, requests, markdown, error>>

\* markdown = self.formatter.render(transcript)
Render ==
    /\ pc = "render"
    /\ pc' = "done"
    /\ markdown' = render(data[1])
    /\ UNCHANGED <<inputs, output, video_id, listed, available_languages,
                   transcript, lookups, fetched, result, title, requests, data, error>>


----------------------------------------------------------------------------
(* The script app.py: its own get_transcript, get_video_title and           *)
(* format_transcript_to_markdown                                             *)

\* urlparse(url).scheme is non-empty: a letter, then letters, digits, "+",
\* "-" or ".", up to the first colon.
SchemeChars == (IdChars \ {"_"}) \cup {"+", "."}

HasScheme(s) ==
    \E i \in 2..Len(s) :
        /\ s[i] = ":"
        /\ \A j \in 1..(i - 1) : s[j] \in SchemeChars
        /\ s[1] \notin {"0", "1", "2", "3", "4", "5", "6", "7", "8", "9", "+", "-", "."}

\* app.py's extract_video_id: the same patterns, without the test for an
\* empty url.
LegacyExtract(s) ==
    IF MatchingPatterns(s) = {} THEN None
    ELSE PatternSearch(YOUTUBE_ID_PATTERNS[Min(MatchingPatterns(s))], s)

\* [t.language_code for t in transcript_list]
ListedCodes(transcript_list) ==
    [i \in 1..Len(transcript_list) |-> transcript_list[i].language_code]

MsgLegacyInvalidUrl == <<"I", "n", "v", "a", "l", "i", "d", " ", "U", "R", "L">>

\* segment.text of a fetched segment: only an object with that attribute has it.
HasTextAttribute(segment) ==
    /\ segment.kind = "object"
    /\ "text" \in DOMAIN segment.attrs
    /\ segment.attrs["text"].t = "str"

\* A slip: the segments whose text is empty are left out of the paragraph.
LegacyParagraph_SkipEmpty(raw_segments) ==
    Join(SelectSeq([i \in 1..Len(raw_segments) |-> raw_segments[i].attrs["text"].v],
                   LAMBDA t : t # <<>>),
         <<" ">>)

\* " ".join(segment.text for segment in transcript)
LegacyParagraph(raw_segments) ==
    Join([i \in 1..Len(raw_segments) |-> raw_segments[i].attrs["text"].v], <<" ">>)

\* f"# {title}\n\nURL: {url}\n\n" followed by the paragraph
format_transcript_to_markdown(raw_segments, u, t) ==
    <<"#", " ">> \o t \o <<"\n", "\n", "U", "R", "L", ":", " ">> \o u \o <<"\n", "\n">>
    \o LegacyParagraph(raw_segments)

\* app.py's get_video_title: the oEmbed request only, data.get('title', '')
LegacyTitle(u, oembed) ==
    IF LegacyExtract(u) = None THEN [title |-> None, requests |-> <<>>]
    ELSE IF oembed.how = "title" THEN [title |-> oembed.title, requests |-> <<"oembed">>]
    ELSE IF oembed.how = "no_title" THEN [title |-> <<>>, requests |-> <<"oembed">>]
    ELSE [title |-> None, requests |-> <<"oembed">>]

LegacyFrame == <<inputs, listed, available_languages, data, title, requests, markdown, output>>

\* the URL validation and extract_video_id of the main block
LegacyStart ==
    /\ app = "legacy"
    /\ pc = "start"
    /\ IF ~HasScheme(url)
       THEN Fail([type |-> "exit", message |-> MsgLegacyInvalidUrl]) /\ UNCHANGED video_id
       ELSE /\ video_id' = LegacyExtract(url)
            /\ IF LegacyExtract(url) = None
               THEN Fail([type |-> "exit", message |-> MsgInvalidUrl])
               ELSE pc' = "legacy_list" /\ UNCHANGED error
    /\ UNCHANGED <<inputs, listed, available_languages, transcript, lookups, fetched,
                   result, title, requests, data, markdown, output>>

\* list_transcripts of get_transcript
LegacyList ==
    /\ pc = "legacy_list"
    /\ listed' = listed + 1
    /\ \E outcome \in {"ok", "TranscriptsDisabled", "NoTranscriptFound"} :
          IF outcome = "ok"
          THEN pc' = "legacy_explicit" /\ UNCHANGED error
          ELSE Fail(ValueError(MsgTranscriptsUnavailable))
    /\ UNCHANGED <<inputs, video_id, available_languages, transcript, lookups, fetched,
                   result, title, requests, data, markdown, output>>

\* transcript.fetch() inside get_transcript: the raw segments, or an exception
\* that leaves get_transcript.
LegacyFetch(track) ==
    /\ fetched' = Append(fetched, track)
    /\ \/ /\ Fail(fetch_error)
          /\ UNCHANGED result
       \/ \E raw_segments \in RawSegmentLists :
             /\ result' = << [segments |-> raw_segments, languages |-> <<>>,
                              language_code |-> track.language_code,
                              is_generated |-> track.is_generated] >>
             /\ pc' = "legacy_format"
             /\ UNCHANGED error

\* if language: find_transcript([language]).fetch()
LegacyExplicit ==
    /\ pc = "legacy_explicit"
    /\ IF language # None /\ language # <<>>
       THEN /\ lookups' = Append(lookups, "explicit")
            /\ transcript' = find_transcript(catalog, <<language>>)
            /\ IF find_transcript(catalog, <<language>>) = <<>>
               THEN /\ Fail(ValueError(MsgLanguageNotAvailable(language, ListedCodes(catalog))))
                    /\ UNCHANGED <<fetched, result>>
               ELSE LegacyFetch(find_transcript(catalog, <<language>>)[1])
       ELSE /\ pc' = "legacy_manual"
            /\ UNCHANGED <<lookups, transcript, fetched, result, error>>
    /\ UNCHANGED <<video_id, LegacyFrame>>

\* the manual tracks first
LegacyManual ==
    /\ pc = "legacy_manual"
    /\ IF ManualLangs(catalog) # <<>>
       THEN /\ lookups' = Append(lookups, "manual")
            /\ \E found \in Found(catalog, ManualLangs(catalog)) :
                  /\ transcript' = found
                  /\ IF found = <<>>
                     THEN /\ pc' = "legacy_catchall"
                          /\ UNCHANGED <<fetched, result, error>>
                     ELSE LegacyFetch(found[1])
       ELSE /\ pc' = "legacy_catchall"
            /\ UNCHANGED <<lookups, transcript, fetched, result, error>>
    /\ UNCHANGED <<video_id, LegacyFrame>>

\* then any listed track
LegacyCatchAll ==
    /\ pc = "legacy_catchall"
    /\ lookups' = Append(lookups, "catchall")
    /\ \E found \in Found(catalog, ListedCodes(catalog)) :
          /\ transcript' = found
          /\ IF found = <<>>
             THEN /\ Fail(ValueError(MsgNoTranscriptsAvailable))
                  /\ UNCHANGED <<fetched, result>>
             ELSE LegacyFetch(found[1])
    /\ UNCHANGED <<video_id, LegacyFrame>>

\* format_transcript_to_markdown: the title lookup, then the document
LegacyFormat ==
    /\ pc = "legacy_format"
    /\ \E oembed \in OembedOutcomes :
          LET got == LegacyTitle(url, oembed)
          IN  /\ title' = IF got.title = None \/ got.title = <<>>
                          THEN DefaultTitle ELSE got.title
              /\ requests' = requests \o got.requests
              /\ IF \A i \in 1..Len(result[1].segments) : HasTextAttribute(result[1].segments[i])
                 THEN /\ markdown' = format_transcript_to_markdown(result[1].segments, url, title')
                      /\ pc' = "legacy_write"
                      /\ UNCHANGED error
                 ELSE /\ Fail([type |-> "Exception", message |-> <<>>])
                      /\ UNCHANGED markdown
    /\ UNCHANGED <<inputs, video_id, listed, available_languages, transcript, lookups,
                   fetched, result, data, output>>

\* with open(args.output, "w") as f: f.write(markdown_content)
LegacyWrite ==
    /\ pc = "legacy_write"
    /\ pc' = "done"
    /\ output' = markdown
    /\ UNCHANGED <<inputs, video_id, listed, available_languages, transcript, lookups,
                   fetched, result, title, requests, data, markdown, error>>

Init ==
    /\ app \in {"core", "legacy"}
    /\ pc = "start"
    /\ output = None
    /\ url \in FetchUrls
    /\ language \in Requests
    /\ catalog \in Catalogs
    /\ video_id = None
    /\ listed = 0
    /\ available_languages = <<>>
    /\ transcript = <<>>
    /\ lookups = <<>>
    /\ fetched = <<>>
    /\ result = <<>>
    /\ title = None
    /\ requests = <<>>
    /\ data = <<>>
    /\ markdown = None
    /\ error = NoError
    /\ start = 0
    /\ formatted = None
    /\ raw = DictSegment(<<>>)
    /\ field = "start"
    /\ resolved = NoneValue
    /\ gui = <<>>
    /\ cli = NoCli
    /\ fetch_error = ConnectionError
    /\ flaky = FALSE

Next ==
    \/ Validate
    \/ ListTranscripts
    \/ ExplicitRequest
    \/ ManualPreference
    \/ CatchAll
    \/ FetchTrack
    \/ ResolveTitle
    \/ BuildData
    \/ Render
    \/ LegacyStart
    \/ LegacyList
    \/ LegacyExplicit
    \/ LegacyManual
    \/ LegacyCatchAll
    \/ LegacyFormat
    \/ LegacyWrite

Spec == Init /\ [][Next]_vars

\* The same operation with a provider whose lookups can fail for codes it
\* lists.
InitFlaky ==
    /\ app \in {"core", "legacy"}
    /\ pc = "start"
    /\ output = None
    /\ url = WatchUrl
    /\ language \in Requests
    /\ catalog \in Catalogs
    /\ video_id = None
    /\ listed = 0
    /\ available_languages = <<>>
    /\ transcript = <<>>
    /\ lookups = <<>>
    /\ fetched = <<>>
    /\ result = <<>>
    /\ title = None
    /\ requests = <<>>
    /\ data = <<>>
    /\ markdown = None
    /\ error = NoError
    /\ start = 0
    /\ formatted = None
    /\ raw = DictSegment(<<>>)
    /\ field = "start"
    /\ resolved = NoneValue
    /\ gui = <<>>
    /\ cli = NoCli
    /\ fetch_error = ConnectionError
    /\ flaky = TRUE

SpecFlaky == InitFlaky /\ [][Next]_vars

----------------------------------------------------------------------------
(* The command line: run_cli of views/cli_view.py, and how the main block  *)
(* of app.py ends.  What is printed is a list of lines.                     *)

ErrorPrefix == <<"E", "r", "r", "o", "r", ":", " ">>

UnexpectedPrefix ==
    <<"A", "n", " ", "u", "n", "e", "x", "p", "e", "c", "t", "e", "d", " ", "e", "r", "r", "o", "r", " ", "o", "c", "c", "u", "r", "r", "e", "d", ":", " ">>

SavedPrefix == <<"T", "r", "a", "n", "s", "c", "r", "i", "p", "t", " ", "s", "a", "v", "e", "d", " ", "t", "o", " ">>

\* default="transcript.md" of the -o option
OutputPath == <<"t", "r", "a", "n", "s", "c", "r", "i", "p", "t", ".", "m", "d">>

MsgNoLanguages ==
    <<"N", "o", " ", "t", "r", "a", "n", "s", "c", "r", "i", "p", "t", "s", " ", "a", "r", "e", " ", "a", "v", "a", "i", "l", "a", "b", "l", "e", " ", "f", "o", "r", " ", "t", "h", "i", "s", " ", "v", "i", "d", "e", "o", ".">>

LanguagesHeader ==
    <<"A", "v", "a", "i", "l", "a", "b", "l", "e", " ", "t", "r", "a", "n", "s", "c", "r", "i", "p", "t", " ", "l", "a", "n", "g", "u", "a", "g", "e", "s", ":">>

ManualLabel == <<" ", " ", "M", "a", "n", "u", "a", "l", ":", " ", " ", " ", " ">>

GeneratedLabel == <<" ", " ", "G", "e", "n", "e", "r", "a", "t", "e", "d", ":", " ">>

\* sorted({t.language_code for t in transcript_list if not t.is_generated})
ManualLanguages(transcript_list) ==
    SortedSet({transcript_list[i].language_code :
                  i \in {j \in 1..Len(transcript_list) : ~transcript_list[j].is_generated}})

\* sorted({t.language_code for t in transcript_list if t.is_generated})
GeneratedLanguages(transcript_list) ==
    SortedSet({transcript_list[i].language_code :
                  i \in {j \in 1..Len(transcript_list) : transcript_list[j].is_generated}})

\* _print_languages(manual, generated): the lines it prints
_print_languages(manual, generated) ==
    IF manual = <<>> /\ generated = <<>> THEN <<MsgNoLanguages>>
    ELSE <<LanguagesHeader>>
         \o (IF manual # <<>> THEN <<ManualLabel \o Join(manual, <<",", " ">>)>> ELSE <<>>)
         \o (IF generated # <<>>
             THEN <<GeneratedLabel \o Join(generated, <<",", " ">>)>> ELSE <<>>)

\* The state of a run of the command line before anything is printed; what
\* it returned is <<>> until it returns, then <<code>>.
InitialCli(list_languages) ==
    [list_languages |-> list_languages, printed |-> <<>>, returned |-> <<>>]

\* print(line); return code
Return(code, lines) ==
    /\ cli' = [cli EXCEPT !.printed = cli.printed \o lines, !.returned = <<code>>]
    /\ pc' = "exited"

CliFrame == <<app, url, language, catalog, unit, gui, fetch_error, flaky>>

\* A slip: the languages are printed and the run goes on to fetch.
ListLanguages_Fallthrough ==
    /\ app = "core"
    /\ cli # NoCli
    /\ cli.list_languages
    /\ pc = "start"
    /\ video_id' = extract_video_id(url)
    /\ IF extract_video_id(url) = None \/ extract_video_id(url) = <<>>
       THEN /\ Fail(ValueError(MsgInvalidUrl))
            /\ UNCHANGED cli
       ELSE /\ cli' = [cli EXCEPT !.printed =
                          _print_languages(ManualLanguages(catalog), GeneratedLanguages(catalog))]
            /\ pc' = "list"
            /\ UNCHANGED error
    /\ UNCHANGED <<CliFrame, listed, available_languages, transcript, lookups, fetched,
                   result, title, requests, data, markdown, output>>

\* if args.list_languages: controller.list_languages(url), _print_languages,
\* return 0; a ValueError of either call leaves the try block.
ListLanguages ==
    /\ app = "core"
    /\ cli # NoCli
    /\ cli.list_languages
    /\ pc = "start"
    /\ video_id' = extract_video_id(url)
    /\ IF extract_video_id(url) = None \/ extract_video_id(url) = <<>>
       THEN /\ Fail(ValueError(MsgInvalidUrl))
            /\ UNCHANGED <<cli, listed>>
       ELSE /\ listed' = listed + 1
            /\ \E outcome \in {"ok", "TranscriptsDisabled", "NoTranscriptFound"} :
                  IF outcome = "ok"
                  THEN /\ Return(0, _print_languages(ManualLanguages(catalog),
                                                     GeneratedLanguages(catalog)))
                       /\ UNCHANGED error
                  ELSE /\ Fail(ValueError(MsgTranscriptsUnavailable))
                       /\ UNCHANGED cli
    /\ UNCHANGED <<CliFrame, available_languages, transcript, lookups, fetched, result,
                   title, requests, data, markdown, output>>

\* A slip: the file is written before the operation is known to have succeeded.
WriteOutput_Early ==
    /\ app = "core"
    /\ cli # NoCli
    /\ pc \in {"done", "failed"}
    /\ cli.returned = <<>>
    /\ output' = IF markdown = None THEN <<>> ELSE markdown
    /\ Return(IF pc = "done" THEN 0 ELSE 1, <<SavedPrefix \o OutputPath>>)
    /\ UNCHANGED <<CliFrame, video_id, listed, available_languages, transcript, lookups,
                   fetched, result, title, requests, data, markdown, error>>

\* output_path.write_text(markdown, encoding="utf-8"), the print and return 0;
\* a write that fails raises OSError and leaves no file, or an empty one.
WriteOutput ==
    /\ app = "core"
    /\ cli # NoCli
    /\ pc = "done"
    /\ \/ /\ output' = markdown
          /\ Return(0, <<SavedPrefix \o OutputPath>>)
          /\ UNCHANGED error
       \/ /\ output' \in {None, <<>>}
          /\ Fail([type |-> "OSError", message |-> OutputPath])
          /\ UNCHANGED cli
    /\ UNCHANGED <<CliFrame, video_id, listed, available_languages, transcript, lookups,
                   fetched, result, title, requests, data, markdown>>

\* The clause that catches the exception: ValueError (and the exits of
\* app.py) print "Error: ...", anything else the unexpected-error line.  A
\* conversion that fails raises ValueError for a string and TypeError for None.
Prefixes(err) ==
    IF err.type \in {"ValueError", "exit"} THEN {ErrorPrefix}
    ELSE IF err.type = "ConversionError" THEN {ErrorPrefix, UnexpectedPrefix}
    ELSE {UnexpectedPrefix}

\* except ValueError as exc: print(f"Error: {exc}"); return 1
\* except Exception as exc: print(f"An unexpected error occurred: {exc}"); return 1
ReportError ==
    /\ cli # NoCli
    /\ pc = "failed"
    /\ \E prefix \in Prefixes(error) : Return(1, <<prefix \o error.message>>)
    /\ UNCHANGED <<CliFrame, video_id, listed, available_languages, transcript, lookups,
                   fetched, result, title, requests, data, markdown, error, output>>

\* print(f"Transcript saved to {args.output}") at the end of app.py; the
\* process ends with status 0.
LegacySaved ==
    /\ app = "legacy"
    /\ cli # NoCli
    /\ pc = "done"
    /\ Return(0, <<SavedPrefix \o OutputPath>>)
    /\ UNCHANGED <<CliFrame, video_id, listed, available_languages, transcript, lookups,
                   fetched, result, title, requests, data, markdown, error, output>>

\* The languages a run of the command line is asked for.
CliRequests == {None, <<"f", "r">>}

InitCli ==
    /\ start = 0
    /\ formatted = None
    /\ raw = DictSegment(<<>>)
    /\ field = "start"
    /\ resolved = NoneValue
    /\ gui = <<>>
    /\ app \in {"core", "legacy"}
    /\ cli \in {InitialCli(flag) : flag \in IF app = "core" THEN BOOLEAN ELSE {FALSE}}
    /\ fetch_error \in FetchErrors
    /\ flaky = FALSE
    /\ pc = "start"
    /\ output = None
    /\ url \in FetchUrls
    /\ language \in CliRequests
    /\ catalog \in Catalogs
    /\ video_id = None
    /\ listed = 0
    /\ available_languages = <<>>
    /\ transcript = <<>>
    /\ lookups = <<>>
    /\ fetched = <<>>
    /\ result = <<>>
    /\ title = None
    /\ requests = <<>>
    /\ data = <<>>
    /\ markdown = None
    /\ error = NoError

NextCli ==
    \/ ListLanguages
    \/ Validate
    \/ ListTranscripts
    \/ ExplicitRequest
    \/ ManualPreference
    \/ CatchAll
    \/ FetchTrack
    \/ ResolveTitle
    \/ BuildData
    \/ Render
    \/ WriteOutput
    \/ ReportError
    \/ LegacyStart
    \/ LegacyList
    \/ LegacyExplicit
    \/ LegacyManual
    \/ LegacyCatchAll
    \/ LegacyFormat
    \/ LegacyWrite
    \/ LegacySaved

SpecCli == InitCli /\ [][NextCli]_vars



----------------------------------------------------------------------------
(* The extractor alone: extract_video_id applied to every URL of a family  *)

Schemes == {<<"h", "t", "t", "p", "s", ":", "/", "/">>, <<"h", "t", "t", "p", ":", "/", "/">>, <<>>}

\* Hosts and paths of the three documented shapes: watch?v=<ID>,
\* youtu.be/<ID> and youtube.com/embed/<ID>.
ShapePrefixes ==
    {<<"w", "w", "w", ".", "y", "o", "u", "t", "u", "b", "e", ".", "c", "o", "m", "/", "w", "a", "t", "c", "h", "?", "v", "=">>,
     <<"y", "o", "u", "t", "u", "b", "e", ".", "c", "o", "m", "/", "w", "a", "t", "c", "h", "?", "v", "=">>,
     <<"m", ".", "y", "o", "u", "t", "u", "b", "e", ".", "c", "o", "m", "/", "w", "a", "t", "c", "h", "?", "v", "=">>,
     <<"w", "w", "w", ".", "y", "o", "u", "t", "u", "b", "e", ".", "c", "o", "m", "/", "w", "a", "t", "c", "h", "?", "f", "e", "a", "t", "u", "r", "e", "=", "s", "h", "a", "r", "e", "&", "v", "=">>,
     <<"y", "o", "u", "t", "u", ".", "b", "e", "/">>,
     <<"w", "w", "w", ".", "y", "o", "u", "t", "u", "b", "e", ".", "c", "o", "m", "/", "e", "m", "b", "e", "d", "/">>,
     <<"y", "o", "u", "t", "u", "b", "e", ".", "c", "o", "m", "/", "e", "m", "b", "e", "d", "/">>}

\* Other sites and other paths.
OtherPrefixes ==
    {<<"e", "x", "a", "m", "p", "l", "e", ".", "c", "o", "m", "/">>,
     <<"e", "x", "a", "m", "p", "l", "e", ".", "c", "o", "m", "/", "v", "i", "d", "e", "o", "?", "i", "d", "=">>,
     <<"w", "w", "w", ".", "y", "o", "u", "t", "u", "b", "e", ".", "c", "o", "m", "/", "w", "a", "t", "c", "h", "?", "l", "i", "s", "t", "=">>,
     <<"w", "w", "w", ".", "y", "o", "u", "t", "u", "b", "e", ".", "c", "o", "m", "/", "p", "l", "a", "y", "l", "i", "s", "t", "?", "l", "i", "s", "t", "=">>,
     <<"v", "i", "m", "e", "o", ".", "c", "o", "m", "/">>}

ValidIds ==
    {<<"d", "Q", "w", "4", "w", "9", "W", "g", "X", "c", "Q">>,
     <<"-", "_", "-", "_", "-", "_", "-", "_", "-", "_", "-">>,
     <<"v", "v", "v", "v", "v", "v", "v", "v", "v", "v", "v">>,
     <<"e", "m", "b", "e", "d", "_", "w", "a", "t", "c", "h">>}

\* Too short, or holding a character outside [0-9A-Za-z_-] within 11 characters.
InvalidIds ==
    {<<>>,
     <<"v", "i", "d", "e", "o">>,
     <<"d", "Q", "w", "4", "w", "9", "W", "g", "X", "c">>,
     <<"d", "Q", "w", "4", "w", ".", "9", "W", "g", "X", "c", "Q">>}

\* What follows the id: nothing, or text that starts with no id character.
Suffixes ==
    {<<>>,
     <<"&", "t", "=", "4", "2", "s">>,
     <<"?", "s", "i", "=", "a", "b", "c", "d", "e", "f", "g", "h", "i", "j", "k", "l", "m", "n", "o", "p">>,
     <<"/">>,
     <<"#", "t", "=", "1">>}

\* Text appended to an id that makes the token longer than 11 characters.
Overlong == <<"e", "x", "t", "r", "a">>

ExtractUrls ==
    {sch \o pre \o id \o suf :
        sch \in Schemes, pre \in ShapePrefixes \cup OtherPrefixes,
        id \in ValidIds \cup InvalidIds, suf \in Suffixes}
    \cup {sch \o pre \o id \o Overlong :
            sch \in Schemes, pre \in ShapePrefixes, id \in ValidIds}

\* Nothing of the fetch operation has happened.
Untouched ==
    /\ cli = NoCli
    /\ fetch_error = ConnectionError
    /\ flaky = FALSE
    /\ language = None
    /\ catalog = <<>>
    /\ video_id = None
    /\ listed = 0
    /\ available_languages = <<>>
    /\ transcript = <<>>
    /\ lookups = <<>>
    /\ fetched = <<>>
    /\ result = <<>>
    /\ title = None
    /\ requests = <<>>
    /\ markdown = None
    /\ error = NoError
    /\ output = None

\* No function is called on its own.
NoUnit ==
    /\ start = 0
    /\ formatted = None
    /\ raw = DictSegment(<<>>)
    /\ field = "start"
    /\ resolved = NoneValue
    /\ gui = <<>>

\* YouTubeService.extract_video_id(url)
ExtractVideoId ==
    /\ app = "core"
    /\ pc = "start"
    /\ pc' = "done"
    /\ video_id' = extract_video_id(url)
    /\ UNCHANGED <<inputs, listed, available_languages, transcript, lookups, fetched,
                   result, title, requests, data, markdown, error, output>>

\* app.py's extract_video_id(url)
LegacyExtractVideoId ==
    /\ app = "legacy"
    /\ pc = "start"
    /\ pc' = "done"
    /\ video_id' = LegacyExtract(url)
    /\ UNCHANGED <<inputs, listed, available_languages, transcript, lookups, fetched,
                   result, title, requests, data, markdown, error, output>>

InitExtract ==
    /\ Untouched
    /\ NoUnit
    /\ pc = "start"
    /\ data = <<>>
    /\ app \in {"core", "legacy"}
    /\ url \in ExtractUrls \cup {<<>>}

NextExtract ==
    \/ ExtractVideoId
    \/ LegacyExtractVideoId

SpecExtract == InitExtract /\ [][NextExtract]_vars

----------------------------------------------------------------------------
(* The renderer alone: MarkdownFormatter.render applied to every            *)
(* TranscriptData of a family                                               *)

MaxSegments == 2

MaxLanguages == 2

RenderTitles == {<<>>, <<"T">>}

RenderStarts == {-5, 42, 36000}

RenderTexts == {<<>>, <<" ", "\n">>, <<"a">>, <<" ", "a", "\n", "b", "\t">>}

RenderSegments == [start : RenderStarts, duration : {10}, text : RenderTexts]

RenderInputs ==
    [video_id : {<<"d", "Q", "w", "4", "w", "9", "W", "g", "X", "c", "Q">>},
     url : {<<"h", "t", "t", "p", "s", ":", "/", "/", "y", "o", "u", "t", "u", ".", "b", "e", "/", "d", "Q", "w", "4", "w", "9", "W", "g", "X", "c", "Q">>},
     title : RenderTitles,
     language : {<<"e", "n">>},
     segments : UNION {[1..n -> RenderSegments] : n \in 0..MaxSegments},
     available_languages : UNION {[1..n -> LanguageCodes] : n \in 0..MaxLanguages},
     is_generated : {FALSE}]

InitRender ==
    /\ Untouched
    /\ NoUnit
    /\ app = "core"
    /\ pc = "render"
    /\ data \in {<<d>> : d \in RenderInputs}
    /\ url = data[1].url

SpecRender == InitRender /\ [][Render]_vars

----------------------------------------------------------------------------
(* The timestamp alone: _format_timestamp applied to every start of a      *)
(* family, in tenths of a second                                            *)

TimestampStarts ==
    (-25..25) \cup (590..610) \cup (35990..36010) \cup (359990..360010)
    \cup {-36000, -600, 36599, 36600, 3599999, 3600000}

\* MarkdownFormatter._format_timestamp(seconds)
FormatTimestamp ==
    /\ pc = "timestamp"
    /\ pc' = "done"
    /\ formatted' = _format_timestamp(start)
    /\ UNCHANGED <<app, url, language, catalog, start, raw, field, resolved, gui, cli, fetch_error, flaky, video_id,
                   listed, available_languages, transcript, lookups, fetched, result,
                   title, requests, data, markdown, error, output>>

InitTimestamp ==
    /\ Untouched
    /\ app = "core"
    /\ url = <<>>
    /\ data = <<>>
    /\ pc = "timestamp"
    /\ start \in TimestampStarts
    /\ formatted = None
    /\ raw = DictSegment(<<>>)
    /\ field = "start"
    /\ resolved = NoneValue
    /\ gui = <<>>

SpecTimestamp == InitTimestamp /\ [][FormatTimestamp]_vars

----------------------------------------------------------------------------
(* The normalization alone: _segment_field applied to every segment of a   *)
(* family, for each of the three fields                                     *)

FieldNames == {"start", "duration", "text"}

\* The default the caller passes for a field: 0.0, 0.0 and "".
DefaultOf(name) == IF name = "text" THEN Str(<<>>) ELSE Num(0)

\* The names a field can be found under: its own, then its aliases.
KeysOf(name) == {name} \cup Range(Aliases(name))

\* A value that tells under which key it was stored.
ValueAt(key) ==
    CASE key = "start" -> Num(10)
      [] key = "offset" -> Num(20)
      [] key = "time" -> Num(30)
      [] key = "duration" -> Num(40)
      [] key = "length" -> Num(50)
      [] key = "text" -> Str(<<"t">>)
      [] key = "snippet" -> Str(<<"s">>)

\* The mappings over some of the keys of a field; a key holds its value or None.
Mappings(name) ==
    {m \in UNION {[D -> {NoneValue} \cup {ValueAt(k) : k \in D}] : D \in SUBSET KeysOf(name)} :
        \A k \in DOMAIN m : m[k] \in {NoneValue, ValueAt(k)}}

\* What to_dict can be: absent, raising, returning no dict, returning a dict.
Conversions(name) ==
    {NoToDict, [how |-> "raises"], [how |-> "not_dict"]}
    \cup {[how |-> "dict", data |-> m] : m \in Mappings(name)}

\* The three representations of a raw segment.
RawSegments(name) ==
    {DictSegment(m) : m \in Mappings(name)}
    \cup {ObjectSegment(m, c) : m \in Mappings(name), c \in Conversions(name)}

\* YouTubeService._segment_field(segment, name, default)
SegmentField ==
    /\ pc = "field"
    /\ pc' = "done"
    /\ resolved' = _segment_field(raw, field, DefaultOf(field))
    /\ UNCHANGED <<app, url, language, catalog, start, formatted, raw, field, gui, cli, fetch_error, flaky, video_id,
                   listed, available_languages, transcript, lookups, fetched, result,
                   title, requests, data, markdown, error, output>>

InitNormalize ==
    /\ Untouched
    /\ app = "core"
    /\ url = <<>>
    /\ data = <<>>
    /\ start = 0
    /\ formatted = None
    /\ pc = "field"
    /\ field \in FieldNames
    /\ raw \in RawSegments(field)
    /\ resolved = NoneValue
    /\ gui = <<>>

SpecNormalize == InitNormalize /\ [][SegmentField]_vars


----------------------------------------------------------------------------
(* The two rendering modes alone: MarkdownFormatter.render (detailed) and   *)
(* app.py's format_transcript_to_markdown (condensed), each called twice on *)
(* the same input                                                            *)

MaxParagraph == 3

CondensedTexts == {<<>>, <<"a">>, <<"b", " ", "c">>}

\* Fetched transcripts whose segments have a text attribute.
CondensedTranscripts ==
    UNION {[1..n -> {ObjectSegment([start |-> Num(0), duration |-> Num(10), text |-> Str(t)],
                                   NoToDict) : t \in CondensedTexts}] :
              n \in 0..MaxParagraph}

\* self.formatter.render(transcript), a second time
RenderAgain ==
    /\ app = "core"
    /\ pc = "done"
    /\ pc' = "again"
    /\ markdown' = render(data[1])
    /\ UNCHANGED <<inputs, output, video_id, listed, available_languages,
                   transcript, lookups, fetched, result, title, requests, data, error>>

\* format_transcript_to_markdown(transcript, url), a second time
LegacyFormatAgain ==
    /\ app = "legacy"
    /\ pc = "legacy_write"
    /\ \E oembed \in OembedOutcomes :
          LET got == LegacyTitle(url, oembed)
          IN  /\ title' = IF got.title = None \/ got.title = <<>>
                          THEN DefaultTitle ELSE got.title
              /\ requests' = requests \o got.requests
              /\ IF \A i \in 1..Len(result[1].segments) : HasTextAttribute(result[1].segments[i])
                 THEN /\ markdown' = format_transcript_to_markdown(result[1].segments, url, title')
                      /\ pc' = "again"
                      /\ UNCHANGED error
                 ELSE /\ Fail([type |-> "Exception", message |-> <<>>])
                      /\ UNCHANGED markdown
    /\ UNCHANGED <<inputs, video_id, listed, available_languages, transcript, lookups,
                   fetched, result, data, output>>

InitModes ==
    /\ NoUnit
    /\ cli = NoCli
    /\ fetch_error = ConnectionError
    /\ flaky = FALSE
    /\ language = None
    /\ catalog = <<>>
    /\ video_id = None
    /\ listed = 0
    /\ available_languages = <<>>
    /\ transcript = <<>>
    /\ lookups = <<>>
    /\ fetched = <<>>
    /\ title = None
    /\ requests = <<>>
    /\ markdown = None
    /\ error = NoError
    /\ output = None
    /\ app \in {"core", "legacy"}
    /\ IF app = "core"
       THEN /\ pc = "render"
            /\ data \in {<<d>> : d \in RenderInputs}
            /\ url = data[1].url
            /\ result = <<>>
       ELSE /\ pc = "legacy_format"
            /\ data = <<>>
            /\ url \in {WatchUrl, OtherSiteUrl}
            /\ result \in {<<[segments |-> t, languages |-> <<>>,
                               language_code |-> <<"e", "n">>, is_generated |-> FALSE]>> :
                              t \in CondensedTranscripts}

NextModes ==
    \/ Render
    \/ RenderAgain
    \/ LegacyFormat
    \/ LegacyFormatAgain

SpecModes == InitModes /\ [][NextModes]_vars

----------------------------------------------------------------------------
(* The GUI of views/gui_view.py.  The window is one record: the Tk          *)
(* variables, the fields of YouTubeTranscriptGUI, the states of the widgets, *)
(* the worker threads that run, the callbacks posted with root.after(0)     *)
(* and not yet run, and the file the save dialog wrote.  handled holds the  *)
(* threads whose callback ran.                                              *)

MaxThreads == 2

\* No more than MaxTimers jobs of root.after are pending at a time.
MaxTimers == 2

AUTO_LANGUAGE_LABEL == <<"A", "u", "t", "o">>

DefaultFilename == <<"y", "o", "u", "t", "u", "b", "e", "_", "t", "r", "a", "n", "s", "c", "r", "i", "p", "t">>

\* The widgets _set_loading disables and enables.
LoadingWidgets ==
    {"fetch_button", "download_button", "refresh_button", "url_entry", "output_entry",
     "language_combo"}

\* The URLs typed into the window.
GuiUrls == {WatchUrl, OtherSiteUrl, <<>>}

\* extract_video_id of each of them, computed once: gui_view.py validates
\* with the extractor of the core, desktop_app.py with its own.
GuiVideoIds == [u \in GuiUrls |-> extract_video_id(u)]

DesktopVideoIds == [u \in GuiUrls |-> LegacyExtract(u)]

\* YouTubeTranscriptGUI.__init__ and _build_layout
InitialGui ==
    [url_var              |-> <<>>,
     output_var           |-> DefaultFilename,
     language_var         |-> AUTO_LANGUAGE_LABEL,
     status_var           |-> "Ready",
     current_markdown     |-> None,
     current_transcript   |-> <<>>,
     language_refresh_job |-> FALSE,
     timers               |-> 0,
     last_language_url    |-> None,
     widgets              |-> [fetch_button |-> "normal", download_button |-> "disabled",
                               refresh_button |-> "normal", url_entry |-> "normal",
                               output_entry |-> "normal", language_combo |-> "readonly"],
     options              |-> <<AUTO_LANGUAGE_LABEL>>,
     preview              |-> <<>>,
     progress             |-> FALSE,
     threads              |-> {},
     after_queue          |-> <<>>,
     started              |-> 0,
     handled              |-> {},
     clear_history        |-> [kept |-> FALSE, at |-> <<>>],
     saved                |-> None]

\* _set_loading(is_loading, status); the empty status leaves the status alone.
_set_loading(g, is_loading, status) ==
    [g EXCEPT !.status_var = IF status # "" THEN status ELSE @,
              !.widgets = [w \in DOMAIN @ |->
                              IF w \in LoadingWidgets
                              THEN (IF is_loading THEN "disabled" ELSE "normal")
                              ELSE @[w]],
              !.progress = is_loading]

\* threading.Thread(target=..., args=...).start()
StartThread(g, target, args) ==
    [g EXCEPT !.started = @ + 1,
              !.threads = @ \cup {[id |-> g.started + 1, target |-> target, args |-> args]}]

\* _validate_url: the stripped URL is not empty and holds a video id.
_validate_url(g) ==
    /\ Strip(g.url_var) # <<>>
    /\ GuiVideoIds[Strip(g.url_var)] # None

\* fetch_transcript: the Fetch button and the Return key
Gui_fetch_transcript(g) ==
    IF ~_validate_url(g) THEN g
    ELSE LET requested_language == Strip(g.language_var)
             lang == IF requested_language = AUTO_LANGUAGE_LABEL THEN None
                     ELSE requested_language
         IN  StartThread(_set_loading(g, TRUE, "Fetching transcript..."),
                         "_fetch_worker", [url |-> Strip(g.url_var), language |-> lang])

\* A slip: the content of the preview pane is written, held document or not.
Gui_download_transcript_Preview(g, dialog) ==
    IF Strip(g.output_var) = <<>> THEN g
    ELSE IF dialog = "saved"
    THEN [g EXCEPT !.saved = g.preview, !.status_var = "Transcript saved"]
    ELSE g

\* download_transcript: the Download button and Control-s; dialog is what
\* the save dialog and the write do.
Gui_download_transcript(g, dialog) ==
    IF Strip(g.output_var) = <<>> THEN g
    ELSE IF g.current_markdown = None \/ g.current_markdown = <<>> THEN g
    ELSE IF dialog = "saved"
    THEN [g EXCEPT !.saved = g.current_markdown, !.status_var = "Transcript saved"]
    ELSE g

\* _schedule_language_refresh: the trace on url_var; the job of the stored
\* handle, when one is stored, is cancelled, and a new job is scheduled and
\* its handle stored.  language_refresh_job tells whether a handle is stored
\* and timers counts the jobs of root.after that are pending.
_schedule_language_refresh(g) ==
    [g EXCEPT !.timers = (IF g.language_refresh_job THEN @ - 1 ELSE @) + 1,
              !.language_refresh_job = TRUE]

\* self.url_var.set(u), which runs the trace
SetUrl(g, u) == _schedule_language_refresh([g EXCEPT !.url_var = u])

\* History, no field of the window, kept in the runs that ask for it: at is
\* <<n>> from a Clear that ran when n threads had been started until a fetch
\* started later succeeds.
ClearedAt(g) ==
    IF g.clear_history.kept THEN [g.clear_history EXCEPT !.at = <<g.started>>]
    ELSE g.clear_history

\* clear_fields
Gui_clear_fields(g) ==
    [SetUrl([g EXCEPT !.timers = IF g.language_refresh_job THEN @ - 1 ELSE @,
                      !.language_refresh_job = FALSE,
                      !.last_language_url = None], <<>>)
        EXCEPT !.output_var = DefaultFilename,
               !.language_var = AUTO_LANGUAGE_LABEL,
               !.preview = <<>>,
               !.status_var = "Ready",
               !.current_markdown = None,
               !.current_transcript = <<>>,
               !.widgets = [@ EXCEPT !.download_button = "disabled"],
               !.options = <<AUTO_LANGUAGE_LABEL>>,
               !.clear_history = ClearedAt(g)]

\* _set_language_options(languages); unique_values is computed once.
_set_language_options(g, languages) ==
    CHOOSE after \in
        {[g EXCEPT !.options = unique_values,
                   !.language_var = IF @ \in Range(unique_values) THEN @
                                    ELSE AUTO_LANGUAGE_LABEL] :
            unique_values \in {<<AUTO_LANGUAGE_LABEL>> \o SortedSet(Range(languages))}} : TRUE

\* _load_languages(url, notify, use_loading)
_load_languages(g, u, notify, use_loading) ==
    StartThread(IF use_loading THEN _set_loading(g, TRUE, "Checking languages...")
                ELSE IF notify THEN [g EXCEPT !.status_var = "Checking languages..."]
                ELSE g,
                "_languages_worker", [url |-> u, notify |-> notify, use_loading |-> use_loading])

\* _auto_refresh_languages(force): the timer (force is false) and the
\* Refresh button (force is true)
_auto_refresh_languages(g, force) ==
    LET h == [g EXCEPT !.language_refresh_job = FALSE]
        u == Strip(g.url_var)
    IN  IF u = <<>>
        THEN [_set_language_options(h, <<>>)
                EXCEPT !.last_language_url = None,
                       !.status_var = IF force THEN "Ready" ELSE @]
        ELSE IF GuiVideoIds[u] = None
        THEN [_set_language_options(h, <<>>)
                EXCEPT !.last_language_url = None,
                       !.status_var = IF force THEN "Please provide a valid YouTube URL" ELSE @]
        ELSE IF ~force /\ h.last_language_url = u THEN h
        ELSE _load_languages(h, u, force, force)

\* What controller.fetch_transcript(url, language) can return for a video
\* with tracks in two languages: the document of the URL in the requested
\* language, or in English, which the policy prefers, when none is requested.
GuiLanguages == {<<"e", "n">>, <<"e", "s">>}

ControllerResults(u, lang) ==
    [video_id : {GuiVideoIds[u]},
     url : {u},
     title : {<<"T">>},
     language : IF lang = None THEN {<<"e", "n">>} ELSE {lang} \cap GuiLanguages,
     segments : {<< [start |-> 42, duration |-> 10, text |-> <<"a">>] >>},
     available_languages : {<< <<"e", "s">>, <<"e", "n">> >>},
     is_generated : {FALSE}]

\* How the controller call of a fetch worker ends.
FetchOutcomes(u, lang) ==
    {[how |-> "returns", transcript |-> d, markdown |-> render(d)] :
        d \in ControllerResults(u, lang)}
    \cup {[how |-> "ValueError"], [how |-> "Exception"]}

\* FetchOutcomes for every URL and language of the window, computed once.
GuiFetchOutcomes ==
    [x \in GuiUrls \X (GuiLanguages \cup {None}) |-> FetchOutcomes(x[1], x[2])]

\* How controller.list_languages(url) ends for a languages worker.
LanguagesOutcomes ==
    {[how |-> "returns", manual |-> m, generated |-> <<>>] :
        m \in {<<>>, << <<"e", "s">>, <<"e", "n">> >>}}
    \cup {[how |-> "ValueError"], [how |-> "Exception"]}

\* self.root.after(0, func, *args), called by the thread; the message of an
\* error callback goes to a message box only and is left out.
Callback(thread, func, args) == [id |-> thread.id, func |-> func, args |-> args]

\* _fetch_worker(url, language): the callback it posts
Gui_fetch_worker(thread, outcome) ==
    IF outcome.how = "returns"
    THEN Callback(thread, "_fetch_success",
                  [transcript |-> outcome.transcript, markdown |-> outcome.markdown])
    ELSE Callback(thread, "_operation_error", <<>>)

\* _languages_worker(url, notify, use_loading): the callback it posts
_languages_worker(thread, outcome) ==
    IF outcome.how = "returns"
    THEN Callback(thread, "_languages_success",
                  [url |-> thread.args.url, manual |-> outcome.manual,
                   generated |-> outcome.generated, notify |-> thread.args.notify,
                   use_loading |-> thread.args.use_loading])
    ELSE Callback(thread, "_languages_error",
                  [url |-> thread.args.url, notify |-> thread.args.notify,
                   use_loading |-> thread.args.use_loading])

\* _fetch_success(transcript, markdown)
Gui_fetch_success(g, args) ==
    LET h == [_set_loading(g, FALSE, "")
                EXCEPT !.widgets = [@ EXCEPT !.download_button = "normal"],
                       !.status_var = "Transcript fetched",
                       !.current_markdown = args.markdown,
                       !.current_transcript = <<args.transcript>>]
    IN  [_set_language_options(h, args.transcript.available_languages)
            EXCEPT !.last_language_url = args.transcript.url,
                   !.preview = args.markdown]

\* A slip: the error callback leaves the window in its loading state.
_operation_error_KeepLoading(g) == [g EXCEPT !.status_var = "Error"]

\* _operation_error(message)
_operation_error(g) == [_set_loading(g, FALSE, "") EXCEPT !.status_var = "Error"]

\* _languages_success(url, manual, generated, notify, use_loading); unique
\* is computed once.  Neither _set_loading(False) nor _set_language_options
\* writes url_var or status_var, so both are read from g.
_languages_success(g, args) ==
    CHOOSE after \in
        {LET h == _set_language_options(IF args.use_loading THEN _set_loading(g, FALSE, "")
                                        ELSE g,
                                        unique)
             k == IF Strip(g.url_var) = args.url THEN [h EXCEPT !.last_language_url = args.url]
                  ELSE h
         IN  IF args.notify THEN [k EXCEPT !.status_var = "Languages refreshed"]
             ELSE IF g.status_var = "Fetching transcript..." THEN k
             ELSE IF unique # <<>> THEN [k EXCEPT !.status_var = "Detected transcript languages"]
             ELSE [k EXCEPT !.status_var = "No transcripts available for this video"] :
            unique \in {SortedSet(Range(args.manual) \cup Range(args.generated))}} : TRUE

\* _languages_error(url, message, notify, use_loading)
_languages_error(g, args) ==
    LET h == IF args.use_loading THEN _set_loading(g, FALSE, "") ELSE g
    IN  IF args.notify THEN _operation_error(h)
        ELSE IF h.status_var = "Fetching transcript..." THEN h
        ELSE [h EXCEPT !.status_var = "Could not load transcript languages automatically"]

(* The legacy window of desktop_app.py.  It has no language selector and    *)
(* no refresh; the document it holds is current_transcript.                 *)

\* The widgets desktop_app.py's _set_loading disables and enables.
DesktopLoadingWidgets == {"fetch_button", "url_entry", "output_entry"}

\* desktop_app.py: _set_loading(is_loading)
Desktop_set_loading(g, is_loading) ==
    [g EXCEPT !.widgets = [w \in DOMAIN @ |->
                              IF w \in DesktopLoadingWidgets
                              THEN (IF is_loading THEN "disabled" ELSE "normal")
                              ELSE @[w]],
              !.progress = is_loading]

\* desktop_app.py: validate_url
Desktop_validate_url(g) ==
    /\ Strip(g.url_var) # <<>>
    /\ HasScheme(Strip(g.url_var))
    /\ DesktopVideoIds[Strip(g.url_var)] # None

\* desktop_app.py: fetch_transcript
Desktop_fetch_transcript(g) ==
    IF ~Desktop_validate_url(g) THEN g
    ELSE StartThread([Desktop_set_loading(g, TRUE) EXCEPT !.status_var = "Fetching transcript..."],
                     "_fetch_worker", <<>>)

\* desktop_app.py: download_transcript
Desktop_download_transcript(g, dialog) ==
    IF Strip(g.output_var) = <<>> THEN g
    ELSE IF g.current_transcript = None \/ g.current_transcript = <<>> THEN g
    ELSE IF dialog = "saved"
    THEN [g EXCEPT !.saved = g.current_transcript, !.status_var = "Transcript saved"]
    ELSE g

\* desktop_app.py: clear_fields
Desktop_clear_fields(g) ==
    [g EXCEPT !.url_var = <<>>,
              !.output_var = DefaultFilename,
              !.preview = <<>>,
              !.status_var = "Ready",
              !.current_transcript = None,
              !.last_language_url = None,
              !.widgets = [@ EXCEPT !.download_button = "disabled"],
              !.clear_history = ClearedAt(g)]

\* desktop_app.py: the transcripts get_transcript(video_id, None) can return
DesktopTranscripts ==
    {<< ObjectSegment([start |-> Num(0), duration |-> Num(10), text |-> Str(t)], NoToDict) >> :
        t \in {<<"a">>, <<"b", " ", "c">>}}

\* desktop_app.py: how the calls of _fetch_worker end for the URL it reads
\* from the field; without a video id the provider call cannot return.
DesktopOutcomes(u) ==
    {[how |-> "returns", content |-> format_transcript_to_markdown(segs, u, <<"T">>), url |-> u] :
        segs \in IF DesktopVideoIds[u] = None THEN {} ELSE DesktopTranscripts}
    \cup {[how |-> "ValueError"], [how |-> "Exception"]}

\* DesktopOutcomes for every URL of the window, computed once.
DesktopFetchOutcomes == [u \in GuiUrls |-> DesktopOutcomes(u)]

\* desktop_app.py: _fetch_worker, the callback it posts
Desktop_fetch_worker(thread, outcome) ==
    IF outcome.how = "returns"
    THEN Callback(thread, "_fetch_success", [content |-> outcome.content, url |-> outcome.url])
    ELSE Callback(thread, "_fetch_error", <<>>)

\* desktop_app.py: _fetch_success(content, url)
Desktop_fetch_success(g, args) ==
    [Desktop_set_loading(g, FALSE)
        EXCEPT !.widgets = [@ EXCEPT !.download_button = "normal"],
               !.status_var = "Transcript fetched successfully",
               !.current_transcript = args.content,
               !.last_language_url = args.url,
               !.preview = args.content]

\* desktop_app.py: _fetch_error(error_message)
Desktop_fetch_error(g) ==
    [Desktop_set_loading(g, FALSE) EXCEPT !.status_var = "Error fetching transcript"]

\* The callback the event loop runs.
RunCallback(g, cb) ==
    CASE app = "gui" /\ cb.func = "_fetch_success" -> Gui_fetch_success(g, cb.args)
      [] cb.func = "_operation_error" -> _operation_error(g)
      [] cb.func = "_languages_success" -> _languages_success(g, cb.args)
      [] cb.func = "_languages_error" -> _languages_error(g, cb.args)
      [] app = "desktop" /\ cb.func = "_fetch_success" -> Desktop_fetch_success(g, cb.args)
      [] cb.func = "_fetch_error" -> Desktop_fetch_error(g)

\* Everything but the window.
NotGui ==
    <<app, url, language, catalog, unit, cli, fetch_error, flaky, pc, video_id, listed, available_languages, transcript,
      lookups, fetched, result, title, requests, data, markdown, error, output>>

\* A handler of the event loop runs; no more than MaxThreads threads are
\* started in a session and no more than MaxTimers jobs are pending.
Handle(after) ==
    /\ pc = "mainloop"
    /\ after.started <= MaxThreads
    /\ after.timers <= MaxTimers
    /\ gui' = after
    /\ UNCHANGED NotGui

\* The user types a URL; the trace on url_var runs in gui_view.py.
TypeUrl ==
    /\ gui.widgets.url_entry = "normal"
    /\ \E u \in GuiUrls :
          Handle(IF app = "gui" THEN SetUrl(gui, u) ELSE [gui EXCEPT !.url_var = u])

\* The user picks a language of the list.
SelectLanguage ==
    /\ app = "gui"
    /\ gui.widgets.language_combo # "disabled"
    /\ \E i \in 1..Len(gui.options) : Handle([gui EXCEPT !.language_var = gui.options[i]])

\* The Fetch button, when it is enabled
ClickFetch ==
    /\ gui.widgets.fetch_button = "normal"
    /\ Handle(IF app = "gui" THEN Gui_fetch_transcript(gui) ELSE Desktop_fetch_transcript(gui))

\* root.bind("<Return>", ...): the key reaches the window whatever the
\* state of the widgets.
PressReturn ==
    /\ app \in {"gui", "desktop"}
    /\ Handle(IF app = "gui" THEN Gui_fetch_transcript(gui) ELSE Desktop_fetch_transcript(gui))

\* The Download button, when it is enabled
ClickDownload ==
    /\ gui.widgets.download_button = "normal"
    /\ \E dialog \in {"saved", "cancelled", "failed"} :
          Handle(IF app = "gui" THEN Gui_download_transcript(gui, dialog)
                 ELSE Desktop_download_transcript(gui, dialog))

\* root.bind("<Control-s>", ...)
PressControlS ==
    /\ app \in {"gui", "desktop"}
    /\ \E dialog \in {"saved", "cancelled", "failed"} :
          Handle(IF app = "gui" THEN Gui_download_transcript(gui, dialog)
                 ELSE Desktop_download_transcript(gui, dialog))

\* The Refresh button, when it is enabled: refresh_languages
ClickRefresh ==
    /\ app = "gui"
    /\ gui.widgets.refresh_button = "normal"
    /\ Handle(_auto_refresh_languages(gui, TRUE))

\* The Clear button; nothing disables it.
ClickClear ==
    /\ app \in {"gui", "desktop"}
    /\ Handle(IF app = "gui" THEN Gui_clear_fields(gui) ELSE Desktop_clear_fields(gui))

\* A pending job of root.after(600, self._auto_refresh_languages) comes due,
\* whether its handle is the stored one or not.
TimerFires ==
    /\ app = "gui"
    /\ gui.timers >= 1
    /\ Handle(_auto_refresh_languages([gui EXCEPT !.timers = @ - 1], FALSE))

\* A worker thread runs to its end: the controller call returns or raises
\* and the thread posts its callback.
WorkerRun ==
    /\ pc = "mainloop"
    /\ \E thread \in gui.threads :
          \E cb \in IF thread.target = "_languages_worker"
                    THEN {_languages_worker(thread, o) : o \in LanguagesOutcomes}
                    ELSE IF app = "gui"
                    THEN {Gui_fetch_worker(thread, o) :
                            o \in GuiFetchOutcomes[<<thread.args.url, thread.args.language>>]}
                    ELSE {Desktop_fetch_worker(thread, o) :
                            o \in DesktopFetchOutcomes[Strip(gui.url_var)]} :
             gui' = [gui EXCEPT !.threads = @ \ {thread},
                                !.after_queue = Append(@, cb)]
    /\ UNCHANGED NotGui

\* The callback is the success of a fetch that was started after Clear last
\* ran.
StartedAfterClear(g, cb) ==
    /\ cb.func = "_fetch_success"
    /\ g.clear_history.at # <<>>
    /\ cb.id > g.clear_history.at[1]

\* The event loop runs the oldest callback posted with root.after(0, ...).
Deliver ==
    /\ pc = "mainloop"
    /\ gui.after_queue # <<>>
    /\ gui' = [RunCallback(gui, Head(gui.after_queue))
                 EXCEPT !.after_queue = Tail(gui.after_queue),
                        !.handled = gui.handled \cup {Head(gui.after_queue).id},
                        !.clear_history = IF StartedAfterClear(gui, Head(gui.after_queue))
                                          THEN [@ EXCEPT !.at = <<>>] ELSE @]
    /\ UNCHANGED NotGui

InitGui ==
    /\ Untouched
    /\ app \in {"gui", "desktop"}
    /\ url = <<>>
    /\ data = <<>>
    /\ pc = "mainloop"
    /\ start = 0
    /\ formatted = None
    /\ raw = DictSegment(<<>>)
    /\ field = "start"
    /\ resolved = NoneValue
    /\ gui = InitialGui

NextGui ==
    \/ TypeUrl
    \/ SelectLanguage
    \/ ClickFetch
    \/ PressReturn
    \/ ClickDownload
    \/ PressControlS
    \/ ClickRefresh
    \/ ClickClear
    \/ TimerFires
    \/ WorkerRun
    \/ Deliver

SpecGui == InitGui /\ [][NextGui]_vars

(* The delivery of results: the URL of a video is in the field, and the     *)
(* user fetches, refreshes the languages and clears while the workers run   *)
(* and the event loop delivers what they post.                              *)
InitDelivery ==
    /\ Untouched
    /\ app \in {"gui", "desktop"}
    /\ url = <<>>
    /\ data = <<>>
    /\ pc = "mainloop"
    /\ start = 0
    /\ formatted = None
    /\ raw = DictSegment(<<>>)
    /\ field = "start"
    /\ resolved = NoneValue
    /\ gui = IF app = "gui" THEN SetUrl(InitialGui, WatchUrl)
             ELSE [InitialGui EXCEPT !.url_var = WatchUrl]

NextDelivery ==
    \/ ClickFetch
    \/ PressReturn
    \/ ClickRefresh
    \/ ClickClear
    \/ TimerFires
    \/ WorkerRun
    \/ Deliver

\* Tk's mainloop runs every callback posted with root.after(0, ...): the
\* event loop is not starved.
SpecDelivery == InitDelivery /\ [][NextDelivery]_vars /\ WF_vars(Deliver)

\* Fetch and Clear in a window that keeps the history of Clear.
InitClear ==
    /\ Untouched
    /\ app \in {"gui", "desktop"}
    /\ url = <<>>
    /\ data = <<>>
    /\ pc = "mainloop"
    /\ start = 0
    /\ formatted = None
    /\ raw = DictSegment(<<>>)
    /\ field = "start"
    /\ resolved = NoneValue
    /\ gui = [InitialGui EXCEPT !.clear_history = [kept |-> TRUE, at |-> <<>>]]

NextClear ==
    \/ TypeUrl
    \/ ClickFetch
    \/ ClickClear
    \/ WorkerRun
    \/ Deliver

SpecClear == InitClear /\ [][NextClear]_vars

----------------------------------------------------------------------------
(* Properties of the selection policy, checked under Spec *)

NoLanguageRequested == language = None \/ language = <<>>

CatalogCodes == {catalog[i].language_code : i \in 1..Len(catalog)}

HasManualTrack == \E i \in 1..Len(catalog) : ~catalog[i].is_generated

StrictlyIncreasing(q) == \A i \in 1..(Len(q) - 1) : StrLess(q[i], q[i + 1])

\* The one strictly increasing list of the codes the catalog holds.
ExpectedLanguages ==
    CHOOSE q \in UNION {[1..n -> LanguageCodes] : n \in 0..Cardinality(LanguageCodes)} :
        StrictlyIncreasing(q) /\ Range(q) = CatalogCodes

\* The operation is past the selection: a track is about to be, or was, fetched.
SelectionDone ==
    \/ pc \in {"fetch", "title", "build", "render", "done", "legacy_format", "legacy_write"}
    \/ fetched # <<>>

\* C1: when the catalog holds a manual track, no language is requested and
\* fetch_transcript succeeds, the track selected and fetched is a manual one,
\* also when a generated track of the same code is listed before it.
C1_ManualPreferred ==
    (NoLanguageRequested /\ HasManualTrack /\ result # <<>>)
        => /\ ~result[1].is_generated
           /\ \A i \in 1..Len(fetched) : ~fetched[i].is_generated

\* C2: when the requested language is a code of the catalog, only the explicit
\* lookup is made (neither the manual-preference nor the catch-all step is
\* attempted), the selection does not fail, and every track fetched, and the
\* language fetch_transcript returns, has exactly the requested code.
C2_ExplicitRequest ==
    (~NoLanguageRequested /\ language \in CatalogCodes)
        => /\ \A i \in 1..Len(lookups) : lookups[i] = "explicit"
           /\ Len(lookups) <= 1
           /\ \A i \in 1..Len(fetched) : fetched[i].language_code = language
           /\ Len(fetched) <= 1
           /\ transcript # <<>> => transcript[1].language_code = language
           /\ result # <<>> => result[1].language_code = language
           /\ SelectionDone => (lookups = <<"explicit">> /\ transcript # <<>>)
           /\ pc \in {"title", "build", "render", "done", "legacy_format", "legacy_write"}
                 => Len(fetched) = 1
           /\ pc = "failed" => (lookups = <<>> \/ fetched # <<>>)

\* A track of another language is manual and listed first, the requested
\* language was found and the operation completed.
C2_Witness ==
    /\ pc = "done"
    /\ app = "core"
    /\ language = <<"e", "n">>
    /\ Len(catalog) >= 2
    /\ catalog[1] = [language_code |-> <<"e", "s">>, is_generated |-> FALSE]
    /\ fetched = <<[language_code |-> <<"e", "n">>, is_generated |-> TRUE]>>

\* C3: when the requested language is no code of the catalog, the operation
\* fails with the message "Language '<code>' not found. Available languages:
\* <codes>" whose codes are the sorted, deduplicated codes of the catalog; no
\* other track is selected and none is fetched.
C3_LanguageNotAvailable ==
    (~NoLanguageRequested /\ language \notin CatalogCodes /\ lookups # <<>>)
        => /\ pc = "failed"
           /\ error = ValueError(MsgLanguagePrefix \o language \o MsgLanguageMiddle
                                 \o Join(ExpectedLanguages, <<",", " ">>))
           /\ lookups = <<"explicit">>
           /\ transcript = <<>>
           /\ fetched = <<>>
           /\ result = <<>>

\* C3 for the core alone (YouTubeService.fetch_transcript).
C3_CoreLanguageNotAvailable == app = "core" => C3_LanguageNotAvailable

C5_UnavailableIsTerminal ==
    error = ValueError(MsgTranscriptsUnavailable)
        => /\ pc = "failed"
           /\ listed = 1
           /\ lookups = <<>>
           /\ transcript = <<>>
           /\ fetched = <<>>
           /\ result = <<>>
           /\ title = None
           /\ requests = <<>>
           /\ data = <<>>
           /\ markdown = None
           /\ output = None
           /\ ~ENABLED Next

C5_Witness ==
    /\ app = "core"
    /\ error = ValueError(MsgTranscriptsUnavailable)
    /\ Len(catalog) >= 1
    /\ ~NoLanguageRequested

\* C6: the available languages a successful fetch_transcript returns are
\* strictly increasing in string order and are exactly the codes of the
\* catalog's tracks, manual or generated, each once; the TranscriptData
\* carries the same list.
C6_AvailableLanguages ==
    /\ (app = "core" /\ result # <<>>)
          => /\ StrictlyIncreasing(result[1].languages)
             /\ Range(result[1].languages) = CatalogCodes
    /\ (app = "core" /\ data # <<>>)
          => /\ StrictlyIncreasing(data[1].available_languages)
             /\ Range(data[1].available_languages) = CatalogCodes

\* "es" is listed before "en", and "en" both as a manual and as a generated track.
C6_Witness ==
    /\ app = "core"
    /\ data # <<>>
    /\ catalog = <<[language_code |-> <<"e", "s">>, is_generated |-> TRUE],
                   [language_code |-> <<"e", "n">>, is_generated |-> FALSE],
                   [language_code |-> <<"e", "n">>, is_generated |-> TRUE]>>
    /\ data[1].available_languages = << <<"e", "n">>, <<"e", "s">> >>


\* What a title lookup can return: a title, the empty string or None.
LookedUpTitles ==
    {get_video_title(video_id, oembed, scrape) :
        oembed \in OembedOutcomes, scrape \in ScrapeOutcomes \cup {[how |-> "unused"]}}

\* C15: whatever the title lookups do (exception, non-200 status, a 200
\* answer without title, an unparsable body), the title step does not fail:
\* the operation goes on to build the TranscriptData, with the title that was
\* looked up, or with "Video Transcript" when that is absent or empty; the
\* title of the TranscriptData is never empty, and no operation that fetched
\* a transcript ends in an error.
C15_TitleNeverFails ==
    /\ [](app = "core" =>
            /\ pc \in {"build", "render", "done"} => (title # None /\ title # <<>>)
            /\ data # <<>> => (data[1].title # None /\ data[1].title # <<>>
                               /\ data[1].title = title)
            /\ result # <<>> => (pc # "failed" /\ error = NoError))
    /\ [][(app = "core" /\ pc = "title") =>
            /\ pc' = "build"
            /\ \E got \in LookedUpTitles :
                  /\ requests' = requests \o got.requests
                  /\ title' = IF got.title = None \/ got.title = <<>>
                              THEN DefaultTitle ELSE got.title]_vars

\* Both title requests were made and gave no title; the document was built
\* with the literal title.
C15_Witness ==
    /\ app = "core"
    /\ pc = "done"
    /\ requests = <<"oembed", "watch">>
    /\ data # <<>>
    /\ data[1].title = DefaultTitle

----------------------------------------------------------------------------
(* Properties of the extractor, checked under SpecExtract *)

\* The URLs of the three documented shapes that embed the valid id.
ShapedUrls(id) ==
    {sch \o pre \o id \o suf : sch \in Schemes, pre \in ShapePrefixes, suf \in Suffixes}

\* C7: for every URL of the shapes watch?v=<ID>, youtu.be/<ID> and
\* youtube.com/embed/<ID> whose <ID> is 11 characters of [0-9A-Za-z_-],
\* extract_video_id returns exactly <ID>.
C7_ExtractsShapedId ==
    pc = "done" => \A id \in ValidIds : url \in ShapedUrls(id) => video_id = id

\* A short link followed by a query string was given and its id returned.
C7_Witness ==
    /\ pc = "done"
    /\ app = "core"
    /\ url = <<"h", "t", "t", "p", "s", ":", "/", "/", "y", "o", "u", "t", "u", ".", "b", "e", "/", "-", "_", "-", "_", "-", "_", "-", "_", "-", "_", "-", "?", "s", "i", "=", "a", "b", "c", "d", "e", "f", "g", "h", "i", "j", "k", "l", "m", "n", "o", "p">>
    /\ video_id = <<"-", "_", "-", "_", "-", "_", "-", "_", "-", "_", "-">>

\* C8: for the empty input and for every URL that embeds no valid
\* 11-character id in one of the three shapes, extract_video_id returns None.
C8_AbsentWithoutShapedId ==
    (pc = "done" /\ \A id \in ValidIds : url \notin ShapedUrls(id)) => video_id = None

----------------------------------------------------------------------------
(* Properties of the renderer, checked under SpecRender *)

\* s.split("\n")
RECURSIVE SplitLines(_)
SplitLines(s) ==
    LET breaks == {i \in 1..Len(s) : s[i] = "\n"}
    IN  IF breaks = {} THEN <<s>>
        ELSE <<SubSeq(s, 1, Min(breaks) - 1)>>
             \o SplitLines(SubSeq(s, Min(breaks) + 1, Len(s)))

Count(q, x) == Cardinality({i \in 1..Len(q) : q[i] = x})

\* q holds the elements of orig, each as often, in non-decreasing order.
IsSorted(q, orig) ==
    /\ Len(q) = Len(orig)
    /\ \A x \in Range(orig) : Count(q, x) = Count(orig, x)
    /\ \A i \in 1..(Len(q) - 1) : ~StrLess(q[i + 1], q[i])

SortedCodes(orig) ==
    CHOOSE q \in [1..Len(orig) -> Range(orig)] : IsSorted(q, orig)

\* The number of header lines of a document.
HeaderLength(doc) == IF doc.available_languages = <<>> THEN 5 ELSE 6

\* C9: the document starts with "# <title>" ("# Video Transcript" when the
\* title is empty), an empty line, "- Video URL: <url>", "- Language:
\* <language>", then "- Available languages: <codes sorted, joined by ', '>"
\* if and only if there are available languages, then an empty line; the
\* body follows.
C9_Header ==
    (pc = "done" /\ data # <<>> /\ app = "core")
        => LET doc == data[1]
               lines == SplitLines(markdown)
           IN  /\ Len(lines) > HeaderLength(doc)
               /\ lines[1] = <<"#", " ">> \o (IF doc.title = <<>> THEN DefaultTitle
                                                ELSE doc.title)
               /\ lines[2] = <<>>
               /\ lines[3] = <<"-", " ", "V", "i", "d", "e", "o", " ", "U", "R", "L", ":", " ">> \o doc.url
               /\ lines[4] = <<"-", " ", "L", "a", "n", "g", "u", "a", "g", "e", ":", " ">> \o doc.language
               /\ doc.available_languages # <<>> =>
                     /\ lines[5] = <<"-", " ", "A", "v", "a", "i", "l", "a", "b", "l", "e", " ", "l", "a", "n", "g", "u", "a", "g", "e", "s", ":", " ">>
                                   \o Join(SortedCodes(doc.available_languages), <<",", " ">>)
                     /\ lines[6] = <<>>
               /\ doc.available_languages = <<>> => lines[5] = <<>>
               /\ \A i \in (HeaderLength(doc) + 1)..Len(lines) :
                     \/ lines[i] = NoSegmentsLine
                     \/ SubSeq(lines[i], 1, 3) = <<"-", " ", "[">>

\* The title is empty and the languages are listed in decreasing order.
C9_Witness ==
    /\ pc = "done"
    /\ data # <<>>
    /\ data[1].title = <<>>
    /\ data[1].available_languages = << <<"e", "s">>, <<"e", "n">> >>
    /\ Len(data[1].segments) = 2

\* The text of a segment's bullet: its text with newlines turned into spaces,
\* without the whitespace at its ends.
IsTrimmed(txt, text) ==
    /\ txt # <<>>
    /\ txt[1] \notin Whitespace
    /\ txt[Len(txt)] \notin Whitespace
    /\ \E a \in 0..Len(text) :
          /\ a + Len(txt) <= Len(text)
          /\ \A i \in 1..Len(txt) :
                txt[i] = IF text[a + i] = "\n" THEN " " ELSE text[a + i]
          /\ \A i \in (1..a) \cup ((a + Len(txt) + 1)..Len(text)) : text[i] \in Whitespace

\* The segments that have a visible character, in their order.
Readable(segments) == {i \in 1..Len(segments) : \E k \in 1..Len(segments[i].text) :
                                                   segments[i].text[k] \notin Whitespace}

BulletPrefix(segment) == <<"-", " ", "[">> \o _format_timestamp(segment.start) \o <<"]", " ">>

\* C10: the body holds one bullet "- [<timestamp>] <text>" for each segment
\* whose text is not empty once newlines are spaces and the ends are trimmed,
\* in the segments' order, and nothing for the other segments; the line
\* "_Transcript returned no readable segments._" is there, once, if and only
\* if there is no bullet.
C10_Body ==
    (pc = "done" /\ data # <<>> /\ app = "core")
        => LET doc == data[1]
               lines == SplitLines(markdown)
               body == SubSeq(lines, HeaderLength(doc) + 1, Len(lines))
               readable == Readable(doc.segments)
               \* the k-th readable segment
               nth(k) == CHOOSE i \in readable :
                            Cardinality({j \in readable : j <= i}) = k
           IN  IF readable = {}
               THEN body = <<NoSegmentsLine>>
               ELSE /\ Len(body) = Cardinality(readable)
                    /\ Count(body, NoSegmentsLine) = 0
                    /\ \A k \in 1..Len(body) :
                          LET segment == doc.segments[nth(k)]
                              p == BulletPrefix(segment)
                          IN  /\ Len(body[k]) > Len(p)
                              /\ SubSeq(body[k], 1, Len(p)) = p
                              /\ IsTrimmed(SubSeq(body[k], Len(p) + 1, Len(body[k])),
                                           segment.text)

\* A segment of blanks comes before a segment whose text has a newline inside
\* and whitespace at its ends.
C10_Witness ==
    /\ pc = "done"
    /\ data # <<>>
    /\ Len(data[1].segments) = 2
    /\ data[1].segments[1].text = <<" ", "\n">>
    /\ data[1].segments[2].text = <<" ", "a", "\n", "b", "\t">>

\* No segment is readable and the placeholder is the whole body.
C10_WitnessPlaceholder ==
    /\ pc = "done"
    /\ data # <<>>
    /\ Len(data[1].segments) = 2
    /\ Readable(data[1].segments) = {}

----------------------------------------------------------------------------
(* Properties of the timestamp, checked under SpecTimestamp *)

\* s.split(":")
RECURSIVE SplitColons(_)
SplitColons(s) ==
    LET colons == {i \in 1..Len(s) : s[i] = ":"}
    IN  IF colons = {} THEN <<s>>
        ELSE <<SubSeq(s, 1, Min(colons) - 1)>>
             \o SplitColons(SubSeq(s, Min(colons) + 1, Len(s)))

IsNumeral(s) == s # <<>> /\ \A i \in 1..Len(s) : s[i] \in Range(DigitChars)

\* int(s) of a decimal numeral
RECURSIVE NumeralValue(_)
NumeralValue(s) ==
    IF s = <<>> THEN 0
    ELSE 10 * NumeralValue(SubSeq(s, 1, Len(s) - 1)) + (Ord(s[Len(s)]) - Ord("0"))

\* A numeral of n padded with zeros to two digits, and no further.
IsTwoDigitsOf(s, n) ==
    /\ IsNumeral(s)
    /\ NumeralValue(s) = n
    /\ Len(s) >= 2
    /\ Len(s) > 2 => s[1] # "0"

\* floor(start) of a start in tenths of a second.
FloorSeconds(t) == t \div 10

\* max(floor(start), 0)
TotalSeconds(t) == IF FloorSeconds(t) > 0 THEN FloorSeconds(t) ELSE 0

\* C11: the timestamp of a start is computed from total = max(floor(start), 0)
\* as hours = total div 3600, minutes = (total mod 3600) div 60, seconds =
\* total mod 60, each zero-padded to two digits, rendered MM:SS when hours is
\* zero and HH:MM:SS otherwise; a negative start renders as 00:00.
C11_TimestampFormat ==
    pc = "done" =>
        LET total == TotalSeconds(start)
            hours == total \div 3600
            minutes == (total % 3600) \div 60
            secs == total % 60
            fields == SplitColons(formatted)
        IN  /\ minutes \in 0..59 /\ secs \in 0..59
            /\ hours = 0 => /\ Len(fields) = 2
                            /\ IsTwoDigitsOf(fields[1], minutes)
                            /\ IsTwoDigitsOf(fields[2], secs)
            /\ hours # 0 => /\ Len(fields) = 3
                            /\ IsTwoDigitsOf(fields[1], hours)
                            /\ IsTwoDigitsOf(fields[2], minutes)
                            /\ IsTwoDigitsOf(fields[3], secs)
            /\ start < 0 => formatted = <<"0", "0", ":", "0", "0">>

\* A start of 1:00:59.9 hours was formatted with its hours.
C11_Witness ==
    /\ pc = "done"
    /\ start = 36599
    /\ formatted = <<"0", "1", ":", "0", "0", ":", "5", "9">>

\* A negative start was formatted.
C11_WitnessNegative ==
    /\ pc = "done"
    /\ start = -25
    /\ formatted = <<"0", "0", ":", "0", "0">>

\* C12 as stated: a start of 3599.9 renders as 00:59:59 and a start of 3600.0
\* as 01:00:00.
C12_OneHourBoundary ==
    /\ (pc = "done" /\ start = 35999)
          => formatted = <<"0", "0", ":", "5", "9", ":", "5", "9">>
    /\ (pc = "done" /\ start = 36000)
          => formatted = <<"0", "1", ":", "0", "0", ":", "0", "0">>

\* C12 amended: a start of 3599.9 renders as 59:59, without hours, and a
\* start of 3600.0 as 01:00:00.
C12_OneHourBoundaryAmended ==
    /\ (pc = "done" /\ start = 35999) => formatted = <<"5", "9", ":", "5", "9">>
    /\ (pc = "done" /\ start = 36000)
          => formatted = <<"0", "1", ":", "0", "0", ":", "0", "0">>

\* The start of 3599.9 was formatted.
C12_Witness ==
    /\ pc = "done"
    /\ start = 35999
    /\ formatted # None

----------------------------------------------------------------------------
(* Properties of the two rendering modes, checked under SpecModes *)

\* C13: a rendering, in either mode, makes no HTTP request, calls the
\* provider neither to list nor to fetch, writes no file, leaves the
\* transcript it renders unchanged, and a second rendering of the same input
\* yields the same string as the first.
C13_RenderingIsPure ==
    [][/\ requests' = requests
       /\ listed' = listed
       /\ fetched' = fetched
       /\ output' = output
       /\ data' = data
       /\ result' = result
       /\ (markdown # None /\ pc' = "again") => markdown' = markdown]_vars

\* The texts of the fetched segments, in order.
SegmentTexts == [i \in 1..Len(result[1].segments) |-> result[1].segments[i].attrs["text"].v]

\* Where the text of segment k starts in the paragraph when each text is
\* followed by one space: after the texts and the spaces before it.
RECURSIVE OffsetOf(_, _)
OffsetOf(texts, k) == IF k = 1 THEN 0 ELSE OffsetOf(texts, k - 1) + Len(texts[k - 1]) + 1

CondensedHeader ==
    <<"#", " ">> \o title \o <<"\n", "\n", "U", "R", "L", ":", " ">> \o url \o <<"\n", "\n">>

----------------------------------------------------------------------------
(* Properties of the normalization, checked under SpecNormalize *)

\* The field is found under its own name: in the mapping, as an attribute
\* with a value, or in the mapping the conversion returns.
ResolvedByName ==
    IF raw.kind = "dict" THEN field \in DOMAIN raw.attrs
    ELSE \/ HasValue(raw, field)
         \/ raw.to_dict.how = "dict" /\ field \in DOMAIN raw.to_dict.data

\* An alias is present: a key of the mapping, or an attribute with a value.
AliasPresent(alias) ==
    IF raw.kind = "dict" THEN alias \in DOMAIN raw.attrs ELSE HasValue(raw, alias)

\* The aliases of the field that are present, by their place in the list.
PresentAliases == {i \in 1..Len(Aliases(field)) : AliasPresent(Aliases(field)[i])}

\* C16: for every representation of a segment, when the field is not found
\* under its own name and one of its aliases is present, _segment_field
\* returns the value of the first alias present, in the listed order, and not
\* the default.
C16_AliasFallback ==
    (pc = "done" /\ ~ResolvedByName /\ PresentAliases # {})
        => resolved = raw.attrs[Aliases(field)[Min(PresentAliases)]]

\* C17: _segment_field returns the first success among the mapping value at
\* the name, the attribute with a value, the name in the converted mapping,
\* the aliases, and the default; an attribute that is None and a conversion
\* that raises do not stop the resolution, and the default is returned only
\* when no step matched.
C17_ResolutionOrder ==
    pc = "done" =>
        resolved =
            IF raw.kind = "dict" /\ field \in DOMAIN raw.attrs THEN raw.attrs[field]
            ELSE IF raw.kind = "object" /\ HasValue(raw, field) THEN raw.attrs[field]
            ELSE IF raw.kind = "object" /\ raw.to_dict.how = "dict"
                    /\ field \in DOMAIN raw.to_dict.data
            THEN raw.to_dict.data[field]
            ELSE IF PresentAliases # {} THEN raw.attrs[Aliases(field)[Min(PresentAliases)]]
            ELSE DefaultOf(field)

----------------------------------------------------------------------------
(* Properties of the GUI, checked under SpecGui and SpecGuiLive *)

\* The transcript-fetch workers that run.
FetchWorkers == {t \in gui.threads : t.target = "_fetch_worker"}

\* C18: in every reachable state of the window of gui_view.py at most one
\* transcript-fetch worker is in flight: no user event starts a second fetch
\* while one is outstanding.
C18_SingleFlight == app = "gui" => Cardinality(FetchWorkers) <= 1

\* The callbacks of thread id that wait in the queue of the event loop.
QueuedOf(id) == {i \in 1..Len(gui.after_queue) : gui.after_queue[i].id = id}

\* The thread was started and has come to its end.
Finished(id) == id \in 1..gui.started /\ \A t \in gui.threads : t.id # id

\* The callbacks thread id has posted: those that wait and the one that ran.
PostedBy(id) == Cardinality(QueuedOf(id)) + (IF id \in gui.handled THEN 1 ELSE 0)

\* The window but for the threads and the queue of the event loop.
WidgetsAndFields(g) == [g EXCEPT !.threads = {}, !.after_queue = <<>>]

\* The window is not loading: the indicator is stopped and Fetch is enabled.
LoadingCleared(g) == ~g.progress /\ g.widgets.fetch_button = "normal"

\* The completion callbacks the fetch workers post.
FetchCallbacks == {"_fetch_success", "_operation_error", "_fetch_error"}

\* C19: a worker whose controller call returned or raised has posted exactly
\* one completion callback, a running worker none; the step of a worker
\* thread writes no field and no widget of the window; the event loop
\* eventually runs the callback, and the step that runs the callback of a
\* fetch worker clears the loading state.
C19_ResultDelivery ==
    /\ [](\A id \in 1..MaxThreads :
            /\ Finished(id) => PostedBy(id) = 1
            /\ ~Finished(id) => PostedBy(id) = 0)
    /\ [][/\ gui'.threads # gui.threads /\ gui'.started = gui.started
             => WidgetsAndFields(gui') = WidgetsAndFields(gui)
          /\ gui'.handled # gui.handled /\ Head(gui.after_queue).func \in FetchCallbacks
             => LoadingCleared(gui')]_vars
    /\ \A id \in 1..MaxThreads : (QueuedOf(id) # {}) ~> (id \in gui.handled)

\* A fetch worker ended with an error, its callback ran and the window is
\* not loading; another worker ended with a document.
C19_Witness ==
    /\ gui # <<>>
    /\ gui.handled = {1, 2}
    /\ gui.status_var = "Error"
    /\ gui.current_markdown # None
    /\ LoadingCleared(gui)

\* The rendered documents a fetch of the window can return.
FetchedDocuments ==
    {render(d) : d \in UNION {ControllerResults(u, lang) :
                                u \in GuiUrls \ {<<>>}, lang \in GuiLanguages \cup {None}}}

\* C20: the window of gui_view.py holds no document at start and after
\* Clear, and a document it holds is the rendering a successful fetch
\* delivered; a step that writes the file is taken with a document held and
\* writes exactly that document, so a save attempt with no document held
\* writes nothing.
C20_SaveGating ==
    /\ [](app = "gui" =>
            /\ gui.current_markdown \in FetchedDocuments \cup {None}
            /\ gui.started = 0 => gui.current_markdown = None /\ gui.saved = None)
    /\ [][app = "gui" =>
            /\ gui'.saved # gui.saved =>
                  gui.current_markdown # None /\ gui'.saved = gui.current_markdown
            /\ gui' = Gui_clear_fields(gui) => gui'.current_markdown = None]_vars

\* Two documents were fetched; the file holds the first one saved and the
\* window now holds the other.
C20_Witness ==
    /\ gui # <<>>
    /\ app = "gui"
    /\ gui.saved \in FetchedDocuments
    /\ gui.current_markdown \in FetchedDocuments
    /\ gui.saved # gui.current_markdown


----------------------------------------------------------------------------
(* Properties of the command line, checked under SpecCli                   *)

\* The run has returned.
Exited == cli # NoCli /\ cli.returned # <<>>

\* The lines a completed operation prints: the languages, or the saved line.
CompletedLines ==
    IF cli.list_languages
    THEN _print_languages(ManualLanguages(catalog), GeneratedLanguages(catalog))
    ELSE <<SavedPrefix \o OutputPath>>

\* C21: the command line returns 0 only when the operation completed (the
\* rendered document is in the output file, or the languages were printed),
\* every failure, handled or unexpected, is answered by returning 1, and when
\* it returns 1 for a failure other than that of the write itself, the
\* output file has not been written.
C21_ExitCodes ==
    /\ [](Exited =>
            /\ cli.returned \in {<<0>>, <<1>>}
            /\ cli.returned = <<0>> =>
                  /\ error = NoError
                  /\ cli.printed = CompletedLines
                  /\ IF cli.list_languages THEN listed = 1
                     ELSE markdown # None /\ output = markdown
            /\ cli.returned = <<1>> =>
                  /\ error # NoError
                  /\ error.type # "OSError" => output = None)
    /\ [][pc = "failed" => cli'.returned = <<1>> /\ pc' = "exited"]_vars

\* A fetch that failed was answered with 1 and no file.
C21_Witness ==
    /\ Exited
    /\ app = "core"
    /\ cli.returned = <<1>>
    /\ error = ValueError(MsgFetchFailed)
    /\ output = None


\* The run was asked for the languages of a URL that has an id.
ListingRun ==
    /\ cli # NoCli
    /\ cli.list_languages
    /\ extract_video_id(url) # None

ManualCodes == {catalog[i].language_code : i \in {j \in 1..Len(catalog) : ~catalog[j].is_generated}}

GeneratedCodes == {catalog[i].language_code : i \in {j \in 1..Len(catalog) : catalog[j].is_generated}}

\* The manual codes and the generated codes each on a line of their own under
\* the header, or the none-available line when no track is listed.
LanguagesPrinted ==
    IF catalog = <<>> THEN cli.printed = <<MsgNoLanguages>>
    ELSE /\ Len(cli.printed) = 1 + (IF ManualCodes # {} THEN 1 ELSE 0)
                                 + (IF GeneratedCodes # {} THEN 1 ELSE 0)
         /\ cli.printed[1] = LanguagesHeader
         /\ ManualCodes # {} =>
               cli.printed[2] = ManualLabel \o Join(SortedSet(ManualCodes), <<",", " ">>)
         /\ GeneratedCodes # {} =>
               cli.printed[Len(cli.printed)] =
                   GeneratedLabel \o Join(SortedSet(GeneratedCodes), <<",", " ">>)

\* Nothing of fetch and render has happened.
Bypassed ==
    /\ lookups = <<>>
    /\ fetched = <<>>
    /\ result = <<>>
    /\ requests = <<>>
    /\ title = None
    /\ data = <<>>
    /\ markdown = None
    /\ output = None

\* C22 as stated: with --list-languages and a URL that has an id, nothing is
\* fetched, looked up, rendered or written, the codes (or the none-available
\* line) are printed and the exit code is 0.
C22_AlwaysZero ==
    ListingRun =>
        /\ Bypassed
        /\ Exited => cli.returned = <<0>> /\ LanguagesPrinted

\* C22: with --list-languages and a URL that has an id, nothing is fetched,
\* looked up, rendered or written; when the catalog is retrieved the codes
\* (or the none-available line) are printed and the exit code is 0, and when
\* the provider refuses the catalog the error is printed and the exit code
\* is 1.
C22_ListLanguages ==
    ListingRun =>
        /\ Bypassed
        /\ Exited =>
              /\ listed = 1
              /\ IF error = NoError
                 THEN cli.returned = <<0>> /\ LanguagesPrinted
                 ELSE /\ error = ValueError(MsgTranscriptsUnavailable)
                      /\ cli.returned = <<1>>
                      /\ cli.printed = <<ErrorPrefix \o MsgTranscriptsUnavailable>>

\* Manual and generated codes were printed on two lines and 0 was returned.
C22_Witness ==
    /\ ListingRun
    /\ Exited
    /\ cli.returned = <<0>>
    /\ ManualCodes # {}
    /\ GeneratedCodes # {}
    /\ Len(cli.printed) = 3


\* The fetch of the selected track was attempted and raised: nothing was
\* returned, and the failure is not one of the conversions that follow it.
FetchRaised ==
    /\ pc \in {"failed", "exited"}
    /\ fetched # <<>>
    /\ result = <<>>
    /\ error.type \notin {"none", "ConversionError"}

\* C23: when the fetch of the selected track raises, the message the user is
\* given is the one generic string, whatever the provider's exception was:
\* the exception that ends the operation carries it and the command line
\* prints it and nothing else.
C23_NoLeak ==
    FetchRaised =>
        /\ error.message = MsgFetchFailed
        /\ Exited => \E prefix \in {ErrorPrefix, UnexpectedPrefix} :
                        cli.printed = <<prefix \o MsgFetchFailed>>


----------------------------------------------------------------------------
(* Properties of the selection policy with a provider whose lookups can     *)
(* fail, checked under SpecFlaky                                            *)

\* A manual lookup that failed left the operation at the catch-all step, and
\* NoTranscriptsAvailable is only ever the failure of a catch-all lookup.
FallThroughState ==
    /\ (NoLanguageRequested /\ lookups = <<"manual">> /\ transcript = <<>>)
          => (pc \in {"catchall", "legacy_catchall"} /\ error = NoError)
    /\ error = ValueError(MsgNoTranscriptsAvailable)
          => /\ transcript = <<>>
             /\ lookups # <<>>
             /\ lookups[Len(lookups)] = "catchall"

\* The step taken at the catch-all step with no track selected.
CatchAllStep ==
    (pc \in {"catchall", "legacy_catchall"} /\ transcript = <<>>)
        => /\ lookups' = Append(lookups, "catchall")
           /\ (error' = ValueError(MsgNoTranscriptsAvailable)) <=> (transcript' = <<>>)
           /\ transcript' = <<>> => pc' = "failed"

\* C24: with no language requested and manual tracks listed, a manual lookup
\* that fails does not fail the operation: the operation is at the catch-all
\* step with no error, the catch-all lookup is made next, and the operation
\* fails with NoTranscriptsAvailable exactly when that lookup fails too.
C24_ManualFallThrough == []FallThroughState /\ [][CatchAllStep]_vars

\* The manual lookup failed and the catch-all lookup selected a track.
C24_Witness ==
    /\ NoLanguageRequested
    /\ ManualLangs(catalog) # <<>>
    /\ lookups = <<"manual", "catchall">>
    /\ transcript # <<>>
    /\ error = NoError


----------------------------------------------------------------------------
(* Properties of one fetch operation, checked under Spec                    *)

\* The catalog is listed once, one fetch at most is attempted, of the track
\* that was selected, and after a fetch that raised the operation has failed.
OneAttempt ==
    /\ listed <= 1
    /\ Len(fetched) <= 1
    /\ fetched # <<>> => transcript = <<fetched[1]>>
    /\ (fetched # <<>> /\ result = <<>>) => pc = "failed"

\* A fetch that returns nothing ends the operation in that step; a failed
\* operation lists, looks up and fetches nothing more.
FailsAtOnce ==
    /\ (fetched' # fetched /\ result' = <<>>)
          => /\ pc' = "failed"
             /\ error' # NoError
             /\ lookups' = lookups \/ lookups' = Append(lookups, lookups'[Len(lookups')])
    /\ pc = "failed" => UNCHANGED <<listed, lookups, transcript, fetched, result>>

----------------------------------------------------------------------------
(* Properties of the title lookup, checked under Spec                       *)

\* The core has looked the title up.
TitleResolved == app = "core" /\ pc \in {"build", "render", "done"}

\* C26: the title lookup has two stages: when it gives the controller no
\* title (the controller then uses the default one), the watch page was
\* requested after the oEmbed endpoint; the watch page is requested only
\* after the oEmbed endpoint, and never when that one returned a title.
C26_TwoStageTitle ==
    TitleResolved =>
        /\ requests \in {<<"oembed">>, <<"oembed", "watch">>}
        /\ title = DefaultTitle => requests = <<"oembed", "watch">>
        /\ title \in {o.title : o \in {x \in OembedOutcomes : x.how = "title"}}
              => requests = <<"oembed">>


----------------------------------------------------------------------------
(* Properties of the patterns of the extractor, checked under SpecExtract   *)

\* C27: a URL that the second or the third pattern matches is matched by the
\* first one as well, so the id that the extractor returns is group 1 of the
\* leftmost match of the first pattern, and it is 11 characters of
\* [0-9A-Za-z_-]; the second and third patterns never decide the result.
C27_PatternSubsumption ==
    /\ (2 \in MatchingPatterns(url) \/ 3 \in MatchingPatterns(url))
          => 1 \in MatchingPatterns(url)
    /\ (pc = "done" /\ video_id # None)
          => /\ video_id = PatternSearch(YOUTUBE_ID_PATTERNS[1], url)
             /\ Len(video_id) = IdLen
             /\ \A k \in 1..Len(video_id) : video_id[k] \in IdChars

\* The id of a URL that the first and the third pattern match was returned.
C27_Witness ==
    /\ pc = "done"
    /\ video_id # None
    /\ 3 \in MatchingPatterns(url)
    /\ 1 \in MatchingPatterns(url)


----------------------------------------------------------------------------
(* Properties of the controls of the window, checked under SpecGui          *)

\* C28: in every state of the window of gui_view.py the Save button is
\* enabled only if a rendered document of a successful fetch is held.
C28_SaveControl ==
    app = "gui" =>
        (gui.widgets.download_button = "normal" => gui.current_markdown \in FetchedDocuments)


\* C29: in every state of the window of gui_view.py at most one job of the
\* debounced language refresh is pending, and a handle is stored exactly
\* when a job is pending.
C29_Debounce ==
    app = "gui" =>
        /\ gui.timers <= 1
        /\ gui.language_refresh_job <=> gui.timers = 1


\* C30: from the time Clear runs until a fetch that was started after it
\* succeeds, the window holds no document and no transcript, its preview is
\* empty and Save is disabled; the result of a fetch started before the Clear
\* does not fill them again.
C30_ClearHolds ==
    (app \in {"gui", "desktop"} /\ gui.clear_history.at # <<>>) =>
        /\ gui.preview = <<>>
        /\ gui.widgets.download_button = "disabled"
        /\ IF app = "gui"
           THEN gui.current_markdown = None /\ gui.current_transcript = <<>>
           ELSE gui.current_transcript = None

====
